---- MODULE Spec2Model ----
(***************************************************************************)
(* A model of the Actinide continuation-passing evaluator                  *)
(* (actinide/evaluator.py), the Procedure type (actinide/types.py) and     *)
(* the Environment chain (actinide/environment.py).                        *)
(*                                                                         *)
(* A continuation closure is a record tagged by the factory that built it  *)
(* and holding the values the closure captured.  Environments live in two  *)
(* heaps (value environments and macro environments) so that aliasing and  *)
(* mutation by define are visible.  One action is one iteration of the     *)
(* trampoline `run`.                                                       *)
(***************************************************************************)
EXTENDS Integers, Sequences, FiniteSets, TLC

(* ------------------------------ bounds --------------------------------- *)

\* The trampoline is stopped after this many iterations (the self-calling
\* procedure of primer.py never ends on its own).
MaxSteps == 150

(* ------------------------------ values --------------------------------- *)

Nil == [t |-> "nil"]
boolean(b) == [t |-> "bool", b |-> b]
integer(i) == [t |-> "int", i |-> i]
\* A Decimal, held in tenths: decimal(5) is 0.5
decimal(d) == [t |-> "dec", d |-> d]
string(s) == [t |-> "str", s |-> s]
Symbol(n) == [t |-> "sym", n |-> n]
Cons(h, tl) == [t |-> "cons", head |-> h, tail |-> tl]
vector(es) == [t |-> "vec", elems |-> es]
\* A host callable bound into the session (a primitive)
Prim(n) == [t |-> "prim", name |-> n]

true == boolean(TRUE)
false == boolean(FALSE)

\* The slot of a dict that holds no binding
Absent == [t |-> "absent"]

nil_p(v) == v.t = "nil"
cons_p(v) == v.t = "cons"
symbol_p(v) == v.t = "sym"
head(c) == c.head
tail(c) == c.tail

RECURSIVE list_p(_)
list_p(v) == nil_p(v) \/ (cons_p(v) /\ list_p(tail(v)))

RECURSIVE list(_)
list(elems) ==
    IF elems # << >> THEN Cons(Head(elems), list(Tail(elems))) ELSE Nil

\* types.flatten: the elements of a proper list, as a sequence
RECURSIVE flatten(_)
flatten(l) == IF nil_p(l) THEN << >> ELSE <<head(l)>> \o flatten(tail(l))

\* Truth as Scheme has it: every value but #f is true
SchemeTruthy(v) == v # false

\* Python's truth value of an Actinide value (bool(v)): None, False, zero
\* numbers and empty strings and lists are false, every other object is true.
PyTruthy(v) ==
    CASE v.t = "nil" -> FALSE
      [] v.t = "bool" -> v.b
      [] v.t = "int" -> v.i # 0
      [] v.t = "dec" -> v.d # 0
      [] v.t = "str" -> v.s # ""
      [] v.t = "vec" -> v.elems # << >>
      [] OTHER -> TRUE

(* --------------------------- continuations ----------------------------- *)

\* The continuation None: no more work
NoneK == [k |-> "none"]

\* An exception raised while a continuation is built or applied
Raise(e) == [k |-> "raise", err |-> e]
Raised(c) == c.k = "raise"

literal(value, continuation) ==
    [k |-> "literal", value |-> value, continuation |-> continuation]

symbol(symb, continuation) ==
    [k |-> "symbol", symb |-> symb, continuation |-> continuation]

quote(quoted, continuation) ==
    LET vs == flatten(quoted)
    IN  IF Len(vs) # 1 THEN Raise("ValueError")
        ELSE literal(vs[1], continuation)

lambda_(defn, continuation) ==
    LET vs == flatten(defn)
    IN  IF Len(vs) # 2 THEN Raise("ValueError")
        ELSE [k |-> "lambda", formals |-> vs[1], body |-> vs[2],
              continuation |-> continuation]

bind(symb, continuation) ==
    [k |-> "bind", symbol |-> symb, continuation |-> continuation]

macro_bind(symb, continuation) ==
    [k |-> "macro_bind", symbol |-> symb, continuation |-> continuation]

branch(on_true, on_false) ==
    [k |-> "branch", on_true |-> on_true, on_false |-> on_false]

append(args, continuation) ==
    [k |-> "append", args |-> args, continuation |-> continuation]

begin(continuation) == [k |-> "begin", continuation |-> continuation]

invoke(continuation) == [k |-> "invoke", continuation |-> continuation]

\* the closure `guard` of tail_graft
Guard(continuation, environment, macros, guarded) ==
    [k |-> "guard", continuation |-> continuation,
     environment |-> environment, macros |-> macros, guarded |-> guarded]

tail_graft(continuation, environment, macros, guarded) ==
    IF continuation = NoneK THEN guarded
    ELSE Guard(continuation, environment, macros, guarded)

\* apply evaluating the last element of the list first
RECURSIVE apply_lastFirst(_, _)
apply_lastFirst(l, continuation) ==
    IF nil_p(l) THEN [k |-> "apply_nil", continuation |-> continuation]
    ELSE LET elems == flatten(l)
         IN  [k |-> "apply_cons", head |-> elems[Len(elems)],
              tail_cont |-> apply_lastFirst(list(SubSeq(elems, 1, Len(elems) - 1)),
                                            continuation)]

\* apply: the closure for the empty list, and the closure for a non-empty
\* list, which compiles the head only when it is applied
RECURSIVE apply(_, _)
apply(l, continuation) ==
    IF nil_p(l) THEN [k |-> "apply_nil", continuation |-> continuation]
    ELSE [k |-> "apply_cons", head |-> head(l),
          tail_cont |-> apply(tail(l), continuation)]

RECURSIVE eval(_, _)
define(value, continuation, target) ==
    LET vs == flatten(value)
    IN  IF Len(vs) # 2 THEN Raise("ValueError")
        ELSE IF ~symbol_p(vs[1]) THEN Raise("RuntimeError")
        ELSE LET bind_cont == IF target = "macro"
                              THEN macro_bind(vs[1], continuation)
                              ELSE bind(vs[1], continuation)
                 eval_cont == eval(vs[2], bind_cont)
             IN  IF Raised(eval_cont) THEN eval_cont
                 ELSE [k |-> "define", eval_cont |-> eval_cont]

\* if_ with the two targets of branch exchanged
if_exchanged(value, continuation) ==
    LET vs == flatten(value)
    IN  IF Len(vs) # 3 THEN Raise("ValueError")
        ELSE LET if_true_cont == eval(vs[2], continuation)
                 if_false_cont == eval(vs[3], continuation)
             IN  IF Raised(if_true_cont) THEN if_true_cont
                 ELSE IF Raised(if_false_cont) THEN if_false_cont
                 ELSE eval(vs[1], branch(if_false_cont, if_true_cont))

if_(value, continuation) ==
    LET vs == flatten(value)
    IN  IF Len(vs) # 3 THEN Raise("ValueError")
        ELSE LET if_true_cont == eval(vs[2], continuation)
                 if_false_cont == eval(vs[3], continuation)
             IN  IF Raised(if_true_cont) THEN if_true_cont
                 ELSE IF Raised(if_false_cont) THEN if_false_cont
                 ELSE eval(vs[1], branch(if_true_cont, if_false_cont))

eval(value, continuation) ==
    IF symbol_p(value) THEN symbol(value, continuation)
    ELSE IF nil_p(value) \/ ~cons_p(value) THEN literal(value, continuation)
    ELSE IF ~list_p(value) THEN Raise("EvalError")
    ELSE IF head(value) = Symbol("if") THEN if_(tail(value), continuation)
    ELSE IF head(value) = Symbol("define")
        THEN define(tail(value), continuation, "value")
    ELSE IF head(value) = Symbol("define-macro")
        THEN define(tail(value), continuation, "macro")
    ELSE IF head(value) = Symbol("lambda") THEN lambda_(tail(value), continuation)
    ELSE IF head(value) = Symbol("quote") THEN quote(tail(value), continuation)
    ELSE IF head(value) = Symbol("begin")
        THEN apply(tail(value), begin(continuation))
    ELSE apply(value, invoke(continuation))

(* ---------------------------- environments ----------------------------- *)

\* A dict with no keys
EmptyDict == [x \in {} |-> Absent]

\* dict.update(bindings): later pairs replace earlier ones
RECURSIVE update(_, _)
update(d, bindings) ==
    IF bindings = << >> THEN d
    ELSE LET key == bindings[1][1]
             val == bindings[1][2]
         IN  update([x \in DOMAIN d \cup {key} |->
                        IF x = key THEN val ELSE d[x]],
                    Tail(bindings))

\* Environment(bindings, parent): the new node (parent 0 is None)
Environment(bindings, parent) ==
    [b |-> update(EmptyDict, bindings), parent |-> parent]

\* A lookup that prefers the binding of the outermost node
RECURSIVE find_outermost(_, _, _)
find_outermost(H, e, name) ==
    LET up == IF H[e].parent # 0 THEN find_outermost(H, H[e].parent, name)
              ELSE Absent
    IN  IF up # Absent THEN up
        ELSE IF name \in DOMAIN H[e].b THEN H[e].b[name]
        ELSE Absent

\* Environment.find on node e of heap H; Absent stands for BindingError
RECURSIVE find(_, _, _)
find(H, e, name) ==
    IF name \in DOMAIN H[e].b THEN H[e].b[name]
    ELSE IF H[e].parent # 0 THEN find(H, H[e].parent, name)
    ELSE Absent

\* A define that also writes into the parent node
envDefine_andParent(H, e, name, value) ==
    IF H[e].parent = 0
    THEN [H EXCEPT ![e].b = update(H[e].b, << <<name, value>> >>)]
    ELSE [H EXCEPT ![e].b = update(H[e].b, << <<name, value>> >>),
                   ![H[e].parent].b =
                        update(H[H[e].parent].b, << <<name, value>> >>)]

\* Environment.define on node e of heap H: the heap afterwards
envDefine(H, e, name, value) ==
    [H EXCEPT ![e].b = update(H[e].b, << <<name, value>> >>)]

(* ----------------------------- procedures ------------------------------ *)

\* Procedure.parse_formals: <<names, tail formal>>
RECURSIVE parse_formals(_)
parse_formals(formals) ==
    IF ~nil_p(formals) /\ cons_p(formals)
    THEN LET rest == parse_formals(tail(formals))
         IN  << <<head(formals)>> \o rest[1], rest[2] >>
    ELSE << << >>, formals >>

\* Procedure.compile
compile(body, continuation) == eval(body, continuation)

\* Procedure(body, formals, environment, macros, symbols): the new
\* procedure, or the exception raised by compiling its body
Procedure(body, formals, environment, macros) ==
    LET continuation == compile(body, NoneK)
        pf == parse_formals(formals)
    IN  IF Raised(continuation) THEN continuation
        ELSE [t |-> "proc", body |-> body, formals |-> pf[1],
              tail_formal |-> pf[2], environment |-> environment,
              macros |-> macros, continuation |-> continuation]

\* procedure_p: callable(value), true of procedures and of host callables
procedure_p(v) == v.t = "proc" \/ v.t = "prim"

\* zip(formals, args)
zip(formals, args) ==
    [i \in 1..(IF Len(formals) < Len(args) THEN Len(formals) ELSE Len(args))
        |-> <<formals[i], args[i]>>]

\* An arity check that raises only when there are too few arguments
ArityError_tooFewOnly(fn, args) == Len(args) < Len(fn.formals)

\* Whether Procedure.invocation_environment raises ProcedureError
ArityError(fn, args) ==
    \/ Len(args) < Len(fn.formals)
    \/ Len(args) > Len(fn.formals) /\ ~PyTruthy(fn.tail_formal)

\* An invocation environment whose parent is the session's environment
invocation_environment_globalParent(fn, args) ==
    Environment(zip(fn.formals, args), 1)

\* Procedure.invocation_environment: the node it constructs
invocation_environment(fn, args) ==
    LET named_args == zip(fn.formals, args)
        tail_arg == IF PyTruthy(fn.tail_formal)
                    THEN << <<fn.tail_formal,
                              list(SubSeq(args, Len(fn.formals) + 1, Len(args)))>> >>
                    ELSE << >>
    IN  Environment(named_args \o tail_arg, fn.environment)

(* ----------------------------- primitives ------------------------------ *)

\* The host callables bound in the session: the tuple each returns
\* (core.values returns its arguments; the others are wrapped by wrap_fn
\* and return one value)
CallPrim(name, args) ==
    CASE name = "values" -> args
      [] name = "list" -> <<list(args)>>
      [] name = "vector" -> <<vector(args)>>
      [] name = "begin" ->
            <<IF args # << >> THEN args[Len(args)] ELSE Nil>>

(* ------------------------- applying a continuation --------------------- *)

\* What one application of a continuation returns: the tuple
\* (next, env, macros, *args), the two heaps as it left them, and what the
\* application did about procedure calls (ev)
NoEvent == [e |-> "none"]

Returns(next, env, macros, args, envs, menvs, ev) ==
    [err |-> "", next |-> next, env |-> env, macros |-> macros,
     args |-> args, envs |-> envs, menvs |-> menvs, ev |-> ev]

\* An exception that undoes the bindings made so far
Raises_rolledBack(e, envs, menvs) ==
    [err |-> e, next |-> NoneK, env |-> 0, macros |-> 0, args |-> << >>,
     envs |-> [i \in DOMAIN envs |-> [envs[i] EXCEPT !.b = EmptyDict]],
     menvs |-> menvs, ev |-> NoEvent]

\* The application raised exception e
Raises(e, envs, menvs) ==
    [err |-> e, next |-> NoneK, env |-> 0, macros |-> 0, args |-> << >>,
     envs |-> envs, menvs |-> menvs, ev |-> NoEvent]

\* lambda env, macros: (continuation, env, macros, value)
literalStep(c, env, macros, args, envs, menvs) ==
    IF args # << >> THEN Raises("TypeError", envs, menvs)
    ELSE Returns(c.continuation, env, macros, <<c.value>>, envs, menvs, NoEvent)

\* lambda env, macros: (continuation, env, macros, env.find(symb))
symbolStep(c, env, macros, args, envs, menvs) ==
    IF args # << >> THEN Raises("TypeError", envs, menvs)
    ELSE LET v == find(envs, env, c.symb)
         IN  IF v = Absent THEN Raises("BindingError", envs, menvs)
             ELSE Returns(c.continuation, env, macros, <<v>>, envs, menvs, NoEvent)

lambda__(c, env, macros, args, envs, menvs) ==
    IF args # << >> THEN Raises("TypeError", envs, menvs)
    ELSE LET proc == Procedure(c.body, c.formals, env, macros)
         IN  IF "err" \in DOMAIN proc THEN Raises(proc.err, envs, menvs)
             ELSE Returns(c.continuation, env, macros, <<proc>>, envs, menvs,
                          NoEvent)

\* bind_ passing the value on to the target continuation
bind_yieldingValue(c, env, macros, args, envs, menvs) ==
    IF Len(args) # 1 THEN Raises("TypeError", envs, menvs)
    ELSE Returns(c.continuation, env, macros, args,
                 envDefine(envs, env, c.symbol, args[1]), menvs, NoEvent)

\* A bind that writes into the session's environment
bind_inSession(c, env, macros, args, envs, menvs) ==
    IF Len(args) # 1 THEN Raises("TypeError", envs, menvs)
    ELSE Returns(c.continuation, env, macros, << >>,
                 envDefine(envs, 1, c.symbol, args[1]), menvs, NoEvent)

bind_(c, env, macros, args, envs, menvs) ==
    IF Len(args) # 1 THEN Raises("TypeError", envs, menvs)
    ELSE Returns(c.continuation, env, macros, << >>,
                 envDefine(envs, env, c.symbol, args[1]), menvs, NoEvent)

macro_bind_(c, env, macros, args, envs, menvs) ==
    IF Len(args) # 1 THEN Raises("TypeError", envs, menvs)
    ELSE Returns(c.continuation, env, macros, << >>,
                 envs, envDefine(menvs, macros, c.symbol, args[1]), NoEvent)

\* lambda env, macros, val: (on_true if val else on_false, env, macros)
branchStep(c, env, macros, args, envs, menvs) ==
    IF Len(args) # 1 THEN Raises("TypeError", envs, menvs)
    ELSE Returns(IF PyTruthy(args[1]) THEN c.on_true ELSE c.on_false,
                 env, macros, << >>, envs, menvs, NoEvent)

\* append with the received values put first
appendStep_tailFirst(c, env, macros, args, envs, menvs) ==
    Returns(c.continuation, env, macros, args \o c.args, envs, menvs, NoEvent)

\* lambda env, macros, *tail: (continuation, env, macros, *args, *tail)
appendStep(c, env, macros, args, envs, menvs) ==
    Returns(c.continuation, env, macros, c.args \o args, envs, menvs, NoEvent)

\* begin keeping the first value instead of the last
beginStep_first(c, env, macros, args, envs, menvs) ==
    Returns(c.continuation, env, macros,
            IF args # << >> THEN <<args[1]>> ELSE << >>,
            envs, menvs, NoEvent)

\* lambda env, macros, *args: (continuation, env, macros, *(args[-1:] ...))
beginStep(c, env, macros, args, envs, menvs) ==
    Returns(c.continuation, env, macros,
            IF args # << >> THEN <<args[Len(args)]>> ELSE << >>,
            envs, menvs, NoEvent)

\* invoke.procedure_call
procedure_call(c, env, macros, fn, args, envs, menvs) ==
    IF ArityError(fn, args) THEN Raises("ProcedureError", envs, menvs)
    ELSE LET envs2 == Append(envs, invocation_environment(fn, args))
             call_env == Len(envs2)
             menvs2 == Append(menvs, Environment(<< >>, macros))
             call_macros == Len(menvs2)
             call_cont == fn.continuation
             return_cont == tail_graft(c.continuation, env, macros, call_cont)
         IN  Returns(return_cont, call_env, call_macros, << >>, envs2, menvs2,
                     [e |-> "call", fn |-> fn, continuation |-> c.continuation,
                      env |-> env, macros |-> macros,
                      call_env |-> call_env, call_macros |-> call_macros])

\* invoke.builtin
builtin(c, env, macros, fn, args, envs, menvs) ==
    IF fn.t # "prim" THEN Raises("TypeError", envs, menvs)
    ELSE Returns(c.continuation, env, macros, CallPrim(fn.name, args),
                 envs, menvs, NoEvent)

invoke_(c, env, macros, args, envs, menvs) ==
    IF args = << >> THEN Raises("TypeError", envs, menvs)
    ELSE IF args[1].t = "proc"   \* isinstance(fn, t.Procedure)
         THEN procedure_call(c, env, macros, args[1], Tail(args), envs, menvs)
         ELSE builtin(c, env, macros, args[1], Tail(args), envs, menvs)

\* lambda env, macros: (eval_cont, env, macros)   (of define)
defineStep(c, env, macros, args, envs, menvs) ==
    IF args # << >> THEN Raises("TypeError", envs, menvs)
    ELSE Returns(c.eval_cont, env, macros, << >>, envs, menvs, NoEvent)

\* lambda env, macros, *args: (continuation, env, macros, *args)  (of apply)
applyNilStep(c, env, macros, args, envs, menvs) ==
    Returns(c.continuation, env, macros, args, envs, menvs, NoEvent)

\* lambda env, macros, *args:
\*     (eval(head(list), symbols, append(args, tail_cont)), env, macros)
applyConsStep(c, env, macros, args, envs, menvs) ==
    LET next == eval(c.head, append(args, c.tail_cont))
    IN  IF Raised(next) THEN Raises(next.err, envs, menvs)
        ELSE Returns(next, env, macros, << >>, envs, menvs, NoEvent)

RECURSIVE Step(_, _, _, _, _, _)

\* guard treating the value environment as it treats the macro environment:
\* the callee's is passed on when the guarded continuation chains to None
guard_calleeEnv(c, env, macros, args, envs, menvs) ==
    LET r == Step(c.guarded, env, macros, args, envs, menvs)
    IN  IF r.err # "" THEN r
        ELSE IF r.next = NoneK
        THEN Returns(c.continuation, r.env, r.macros, r.args,
                     r.envs, r.menvs,
                     [e |-> "return", continuation |-> c.continuation])
        ELSE Returns(tail_graft(c.continuation, c.environment, r.macros, r.next),
                     r.env, r.macros, r.args, r.envs, r.menvs, r.ev)

\* tail_graft.guard: the name macros is rebound by the unpacking of what
\* the guarded continuation returns, so both returns carry the macro
\* environment the guarded continuation left
guard(c, env, macros, args, envs, menvs) ==
    LET r == Step(c.guarded, env, macros, args, envs, menvs)
    IN  IF r.err # "" THEN r
        ELSE IF r.next = NoneK
        THEN Returns(c.continuation, c.environment, r.macros, r.args,
                     r.envs, r.menvs,
                     [e |-> "return", continuation |-> c.continuation])
        ELSE Returns(tail_graft(c.continuation, c.environment, r.macros, r.next),
                     r.env, r.macros, r.args, r.envs, r.menvs, r.ev)

\* continuation(env, macros, *args)
Step(c, env, macros, args, envs, menvs) ==
    CASE c.k = "literal" -> literalStep(c, env, macros, args, envs, menvs)
      [] c.k = "symbol" -> symbolStep(c, env, macros, args, envs, menvs)
      [] c.k = "lambda" -> lambda__(c, env, macros, args, envs, menvs)
      [] c.k = "bind" -> bind_(c, env, macros, args, envs, menvs)
      [] c.k = "macro_bind" -> macro_bind_(c, env, macros, args, envs, menvs)
      [] c.k = "branch" -> branchStep(c, env, macros, args, envs, menvs)
      [] c.k = "append" -> appendStep(c, env, macros, args, envs, menvs)
      [] c.k = "begin" -> beginStep(c, env, macros, args, envs, menvs)
      [] c.k = "invoke" -> invoke_(c, env, macros, args, envs, menvs)
      [] c.k = "guard" -> guard(c, env, macros, args, envs, menvs)
      [] c.k = "define" -> defineStep(c, env, macros, args, envs, menvs)
      [] c.k = "apply_nil" -> applyNilStep(c, env, macros, args, envs, menvs)
      [] c.k = "apply_cons" -> applyConsStep(c, env, macros, args, envs, menvs)

(* ------------------------------ programs ------------------------------- *)

\* Core forms, built as the reader and expander build them
S(n) == Symbol(n)
L(elems) == list(elems)
Quote(v) == L(<<S("quote"), v>>)
If(c, t, f) == L(<<S("if"), c, t, f>>)
Def(n, e) == L(<<S("define"), S(n), e>>)
DefMacro(n, e) == L(<<S("define-macro"), S(n), e>>)
Lam(formals, body) == L(<<S("lambda"), formals, body>>)
Begin(elems) == L(<<S("begin")>> \o elems)

\* (define pp (lambda () (pp))) and the call (pp), as in primer.py
PrimerProgram ==
    Begin(<<Def("pp", Lam(Nil, L(<<S("pp")>>))), L(<<S("pp")>>)>>)

\* The same loop with a body of two forms: (define pp (lambda () 1 (pp)))
\* as expand_lambda leaves it, and the call (pp)
BeginLoopProgram ==
    Begin(<<Def("pp", Lam(Nil, Begin(<<integer(1), L(<<S("pp")>>)>>))),
            L(<<S("pp")>>)>>)

\* Procedure bodies of f, with formal a; g is (lambda (a) (define x a) a)
Bodies ==
    { S("a"),
      Def("b", S("a")),
      Begin(<<Def("x", S("a")), S("x")>>),
      L(<<S("g"), S("a")>>),
      Begin(<<L(<<S("g"), S("a")>>), S("x")>>),
      L(<<S("list"), L(<<S("g"), S("a")>>), L(<<S("g"), integer(2)>>)>>),
      Begin(<<DefMacro("m", S("a")), L(<<S("g"), S("a")>>)>>),
      L(<<Lam(L(<<S("x")>>), L(<<S("g"), S("x")>>)), S("a")>>) }

\* Places a call of f is made from
Contexts ==
    { L(<<S("f"), integer(1)>>),
      Begin(<<L(<<S("f"), integer(1)>>), S("x")>>),
      L(<<S("list"), L(<<S("f"), integer(1)>>), S("x")>>),
      Begin(<<Def("r", L(<<S("f"), integer(1)>>)), S("r")>>),
      If(L(<<S("f"), integer(1)>>), S("x"), integer(2)),
      L(<<S("f"), L(<<S("f"), integer(1)>>)>>),
      Begin(<<L(<<S("f"), integer(1)>>), DefMacro("m", S("f"))>>),
      L(<<Lam(Nil, L(<<S("f"), integer(1)>>))>>) }

CallProgram(body, context) ==
    Begin(<<Def("x", integer(0)),
            Def("g", Lam(L(<<S("a")>>), Begin(<<Def("x", S("a")), S("a")>>))),
            Def("f", Lam(L(<<S("a")>>), body)),
            context>>)

CallPrograms == {CallProgram(b, c) : b \in Bodies, c \in Contexts}

\* Conditions of every kind of value, with and without bindings of their own
Conds ==
    { false, true, Nil, integer(0), integer(1), string(""), string("a"),
      decimal(0), decimal(5),
      L(<<S("vector")>>), L(<<S("vector"), integer(0)>>),
      Quote(S("x")), Quote(L(<<integer(0)>>)),
      Lam(Nil, false), S("values"),
      Begin(<<Def("x", integer(0)), S("x")>>),
      Begin(<<Def("x", integer(1)), S("x")>>),
      L(<<Lam(Nil, false)>>),
      L(<<Lam(L(<<S("y")>>), S("y")), integer(1)>>),
      L(<<S("values")>>), L(<<S("values"), integer(1), integer(2)>>),
      S("x") }

Branches ==
    { integer(1), integer(2), S("x"),
      Def("y", integer(1)), Def("x", integer(2)),
      L(<<S("values"), integer(1), integer(2)>>),
      Lam(Nil, S("x")),
      L(<<Lam(L(<<S("a")>>), Def("y", S("a"))), integer(3)>>) }

IfPrograms == {If(c, t, f) : c \in Conds, t \in Branches, f \in Branches}

\* Sub-forms that yield no value, one value or two, some with bindings
Elems ==
    { integer(1), S("x"), S("values"), S("list"),
      Def("x", integer(1)),
      Begin(<<Def("x", integer(2)), S("x")>>),
      L(<<S("values")>>),
      L(<<S("values"), integer(1), S("list")>>),
      Lam(S("r"), S("r")),
      L(<<Lam(L(<<S("a")>>), Def("x", S("a"))), integer(3)>>) }

\* The sequences over a set, of length n
RECURSIVE SeqsOfLen(_, _)
SeqsOfLen(set, n) ==
    IF n = 0 THEN {<< >>}
    ELSE {<<x>> \o r : x \in set, r \in SeqsOfLen(set, n - 1)}

\* The longest list of sub-forms
MaxElems == 3

ElemSeqs == UNION {SeqsOfLen(Elems, n) : n \in 0..MaxElems}

BeginPrograms ==
    {Begin(es) : es \in ElemSeqs}
        \cup {Begin(<<integer(1), integer(2), integer(3)>>)}

AppPrograms == {L(es) : es \in ElemSeqs \ {<< >>}}

\* Formal parameter lists: (), r, (a), (a . r), (a b), (a b . r)
Formals ==
    { Nil, S("r"), L(<<S("a")>>), Cons(S("a"), S("r")),
      L(<<S("a"), S("b")>>), Cons(S("a"), Cons(S("b"), S("r"))) }

\* The most arguments a call is given
MaxArgs == 3

\* Argument lists: the literals 11, 12, ... in order
Actuals == {[i \in 1..m |-> integer(10 + i)] : m \in 0..MaxArgs}

\* The body of p: it reads the free variable x, then defines x and w
ProcBody ==
    Begin(<<Def("w", S("x")), Def("x", integer(9)),
            L(<<S("list"), S("x"), S("w")>>)>>)

\* p is made where x is 5 and called where x is 7, in a session where x
\* is 0
ProcProgram(formals, actuals) ==
    Begin(<<Def("x", integer(0)),
            Def("mk", Lam(L(<<S("x")>>), Lam(formals, ProcBody))),
            Def("p", L(<<S("mk"), integer(5)>>)),
            L(<<Lam(L(<<S("x")>>),
                    L(<<S("list"), L(<<S("p")>> \o actuals), S("x")>>)),
                integer(7)>>),
            S("x")>>)

ProcPrograms == {ProcProgram(f, a) : f \in Formals, a \in Actuals}

\* The programs that never end on their own
LoopPrograms == {PrimerProgram, BeginLoopProgram}

Programs ==
    LoopPrograms \cup CallPrograms \cup IfPrograms \cup BeginPrograms
        \cup AppPrograms \cup ProcPrograms

\* The bindings of the session's value environment: the host callables
SessionBindings ==
    << <<S("values"), Prim("values")>>, <<S("list"), Prim("list")>>,
       <<S("vector"), Prim("vector")>>, <<S("begin"), Prim("begin")>> >>

(* -------------------------------- ports -------------------------------- *)

\* Text is a sequence of characters; a character is a string of length one.
\* string_to_input_port: a port over a text, nothing peeked yet
string_to_input_port(text) == [file |-> text, peek_buffer |-> << >>]

\* The first n characters of a text and the rest (file.read(n))
Take(text, n) == SubSeq(text, 1, IF n < Len(text) THEN n ELSE Len(text))
Drop(text, n) == SubSeq(text, (IF n < Len(text) THEN n ELSE Len(text)) + 1,
                        Len(text))

\* Port.peek(n): what it returns, and the port afterwards
peek_port(port, n) ==
    IF port.peek_buffer # << >>
    THEN [chars |-> port.peek_buffer, port |-> port]
    ELSE [chars |-> Take(port.file, n),
          port |-> [file |-> Drop(port.file, n),
                    peek_buffer |-> Take(port.file, n)]]

\* A Port.read that forgets what is left of the peek buffer
read_port_forgetful(port, n) ==
    IF port.peek_buffer # << >>
    THEN [chars |-> Take(port.peek_buffer, n),
          port |-> [port EXCEPT !.peek_buffer = << >>]]
    ELSE [chars |-> Take(port.file, n),
          port |-> [port EXCEPT !.file = Drop(port.file, n)]]

\* Port.read(n)
read_port(port, n) ==
    IF port.peek_buffer # << >>
    THEN [chars |-> Take(port.peek_buffer, n),
          port |-> [port EXCEPT !.peek_buffer = Drop(port.peek_buffer, n)]]
    ELSE [chars |-> Take(port.file, n),
          port |-> [port EXCEPT !.file = Drop(port.file, n)]]

\* Port.read_fully
read_port_fully(port) ==
    [chars |-> port.peek_buffer \o port.file,
     port |-> [file |-> << >>, peek_buffer |-> port.peek_buffer]]

read_next(port) == read_port(port, 1)
peek_next(port) == peek_port(port, 1)

(* ------------------------------ tokenizer ------------------------------ *)

whitespace == {" ", "\n", "\t"}
parens == {"(", ")"}
\* The grave accent (the quasiquote character), which cannot be written in
\* a string of this module
grave == "grave"
quoteChars == {"'", grave, ","}
comment_delim == ";"
string_delim == "\""
string_escaped == {"\"", "\\"}

\* A state of the tokenizer: the state function and what it has accumulated
TokState(name, acc) == [s |-> name, acc |-> acc]

\* What a state function returns: (token, next) with the port as it left
\* it (token << >> is None), or the TokenError it raised
Tok(token, next, port) ==
    [err |-> "", token |-> token, next |-> next, port |-> port]
TokError(port) ==
    [err |-> "TokenError", token |-> << >>, next |-> TokState("eof", << >>),
     port |-> port]

tokenize_any(port) ==
    LET la == peek_next(port)
        next == IF la.chars = << >> THEN "eof"
                ELSE IF la.chars[1] = comment_delim THEN "comment"
                ELSE IF la.chars[1] \in parens THEN "syntax"
                ELSE IF la.chars[1] \in quoteChars THEN "quote"
                ELSE IF la.chars[1] \in whitespace THEN "whitespace"
                ELSE "atom"
    IN  Tok(<< >>, TokState(next, << >>), la.port)

tokenize_comment(port) ==
    LET r == read_next(port)
    IN  IF r.chars = << >> \/ r.chars = <<"\n">>
        THEN Tok(<< >>, TokState("any", << >>), r.port)
        ELSE Tok(<< >>, TokState("comment", << >>), r.port)

tokenize_quote(port) ==
    LET r == read_next(port)
    IN  IF r.chars = <<",">>
        THEN Tok(<< >>, TokState("unquote", r.chars), r.port)
        ELSE Tok(r.chars, TokState("any", << >>), r.port)

\* A tokenize_unquote that reads the character after the comma to look at
\* it
tokenize_unquote_greedy(state, port) ==
    LET r == read_next(port)
    IN  IF r.chars = <<"@">>
        THEN Tok(state \o r.chars, TokState("any", << >>), r.port)
        ELSE Tok(state, TokState("any", << >>), r.port)

tokenize_unquote(state, port) ==
    LET la == peek_next(port)
    IN  IF la.chars = <<"@">>
        THEN LET r == read_next(la.port)
             IN  Tok(state \o r.chars, TokState("any", << >>), r.port)
        ELSE Tok(state, TokState("any", << >>), la.port)

tokenize_syntax(port) ==
    LET r == read_next(port)
    IN  Tok(r.chars, TokState("any", << >>), r.port)

\* A tokenize_whitespace that looks at the character and leaves it
tokenize_whitespace_idle(port) ==
    Tok(<< >>, TokState("any", << >>), peek_next(port).port)

tokenize_whitespace(port) ==
    Tok(<< >>, TokState("any", << >>), read_next(port).port)

tokenize_atom(port) ==
    LET la == peek_next(port)
    IN  IF la.chars = <<string_delim>>
        THEN Tok(<< >>, TokState("string", << >>), la.port)
        ELSE Tok(<< >>, TokState("nonstring_atom", << >>), la.port)

\* A tokenize_nonstring_atom that a string delimiter does not end
tokenize_nonstring_atom_unquoted(state, port) ==
    LET la == peek_next(port)
    IN  IF la.chars = << >>
            \/ la.chars[1] \in {"(", ")", ";", " ", "\t", "\n"}
        THEN Tok(state, TokState("any", << >>), la.port)
        ELSE LET r == read_next(la.port)
             IN  Tok(<< >>, TokState("nonstring_atom", state \o r.chars),
                     r.port)

tokenize_nonstring_atom(state, port) ==
    LET la == peek_next(port)
    IN  IF la.chars = << >>
            \/ la.chars[1] \in {"\"", "(", ")", ";", " ", "\t", "\n"}
        THEN Tok(state, TokState("any", << >>), la.port)
        ELSE LET r == read_next(la.port)
             IN  Tok(<< >>, TokState("nonstring_atom", state \o r.chars),
                     r.port)

tokenize_string(port) ==
    LET quote_ == read_next(port)
        la == peek_next(quote_.port)
    IN  IF la.chars = << >> THEN TokError(la.port)
        ELSE IF la.chars = <<"\\">>
        THEN LET r == read_next(la.port)
             IN  Tok(<< >>,
                     TokState("escaped_string_character",
                              quote_.chars \o r.chars), r.port)
        ELSE IF la.chars = <<"\"">>
        THEN Tok(<< >>, TokState("string_end", quote_.chars), la.port)
        ELSE Tok(<< >>, TokState("string_character", quote_.chars), la.port)

tokenize_string_character(state, port) ==
    LET la == peek_next(port)
    IN  IF la.chars = << >> THEN TokError(la.port)
        ELSE IF la.chars = <<"\\">>
        THEN LET r == read_next(la.port)
             IN  Tok(<< >>,
                     TokState("escaped_string_character", state \o r.chars),
                     r.port)
        ELSE IF la.chars = <<"\"">>
        THEN Tok(<< >>, TokState("string_end", state), la.port)
        ELSE LET r == read_next(la.port)
             IN  Tok(<< >>, TokState("string_character", state \o r.chars),
                     r.port)

\* A tokenize_escaped_string_character that takes any character
tokenize_escaped_string_character_lenient(state, port) ==
    LET r == read_next(port)
    IN  IF r.chars = << >> THEN TokError(r.port)
        ELSE Tok(<< >>, TokState("string_character", state \o r.chars),
                 r.port)

tokenize_escaped_string_character(state, port) ==
    LET r == read_next(port)
    IN  IF r.chars = << >> THEN TokError(r.port)
        ELSE IF r.chars[1] \in string_escaped
        THEN Tok(<< >>, TokState("string_character", state \o r.chars),
                 r.port)
        ELSE TokError(r.port)

tokenize_string_end(state, port) ==
    LET r == read_next(port)
    IN  Tok(state \o r.chars, TokState("any", << >>), r.port)

\* next(port), for the state function next
tokenize(next, port) ==
    CASE next.s = "any" -> tokenize_any(port)
      [] next.s = "comment" -> tokenize_comment(port)
      [] next.s = "syntax" -> tokenize_syntax(port)
      [] next.s = "quote" -> tokenize_quote(port)
      [] next.s = "unquote" -> tokenize_unquote(next.acc, port)
      [] next.s = "whitespace" -> tokenize_whitespace(port)
      [] next.s = "atom" -> tokenize_atom(port)
      [] next.s = "nonstring_atom" -> tokenize_nonstring_atom(next.acc, port)
      [] next.s = "string" -> tokenize_string(port)
      [] next.s = "string_character" ->
            tokenize_string_character(next.acc, port)
      [] next.s = "escaped_string_character" ->
            tokenize_escaped_string_character(next.acc, port)
      [] next.s = "string_end" -> tokenize_string_end(next.acc, port)

\* The loop of read_token from state next: the token (<< >> is None, the
\* end of the input) and the port afterwards, or the TokenError
RECURSIVE read_token_from(_, _)
read_token_from(next, port) ==
    IF next.s = "eof" THEN [err |-> "", token |-> << >>, port |-> port]
    ELSE LET r == tokenize(next, port)
         IN  IF r.err # ""
             THEN [err |-> r.err, token |-> << >>, port |-> r.port]
             ELSE IF r.token # << >>
             THEN [err |-> "", token |-> r.token, port |-> r.port]
             ELSE read_token_from(r.next, r.port)

read_token(port) == read_token_from(TokState("any", << >>), port)

(* ------------------------- reading the atoms --------------------------- *)

\* SymbolTable.__getitem__: the interned symbol of a name; the names the
\* reader and the printer intern are texts
intern(name) == Symbol(name)

Text_quote == <<"q", "u", "o", "t", "e">>
Text_quasiquote == <<"q", "u", "a", "s", "i">> \o Text_quote
Text_unquote == <<"u", "n">> \o Text_quote
Text_unquote_splicing ==
    Text_unquote \o <<"-", "s", "p", "l", "i", "c", "i", "n", "g">>

\* reader.EOF, a symbol that is not interned
EOF == [t |-> "eof"]

\* A decimal that is not a number (Decimal('NaN'))
NaN == [t |-> "dec", nan |-> TRUE]

\* No result (None) of the functions tried by read_as_first
NoResult == [t |-> "none"]

DigitChars == <<"0", "1", "2", "3", "4", "5", "6", "7", "8", "9">>
IsDigit(c) == \E i \in DOMAIN DigitChars : DigitChars[i] = c
DigitValue(c) == (CHOOSE i \in DOMAIN DigitChars : DigitChars[i] = c) - 1
IsDigits(text) == text # << >> /\ \A i \in DOMAIN text : IsDigit(text[i])

\* int(text) of a text of digits, and str(n) of a natural number
RECURSIVE DigitsValue(_)
DigitsValue(text) ==
    IF text = << >> THEN 0
    ELSE 10 * DigitsValue(SubSeq(text, 1, Len(text) - 1))
            + DigitValue(text[Len(text)])

RECURSIVE NatText(_)
NatText(n) ==
    IF n < 10 THEN <<DigitChars[n + 1]>>
    ELSE NatText(n \div 10) \o <<DigitChars[(n % 10) + 1]>>

read_boolean(value) ==
    IF value = <<"#", "t">> THEN true
    ELSE IF value = <<"#", "f">> THEN false
    ELSE NoResult

\* int(value): digits with an optional sign; ValueError gives nil
read_integer(value) ==
    IF IsDigits(value) THEN integer(DigitsValue(value))
    ELSE IF Len(value) > 1 /\ value[1] \in {"-", "+"} /\ IsDigits(Tail(value))
    THEN integer((IF value[1] = "-" THEN -1 ELSE 1) * DigitsValue(Tail(value)))
    ELSE NoResult

display_integer(value) ==
    IF value.i < 0 THEN <<"-">> \o NatText(-value.i) ELSE NatText(value.i)

\* Decimal(value): digits, a point and one digit (held in tenths), or one
\* of the spellings of NaN; InvalidOperation gives nil
read_decimal(value) ==
    IF value \in {<<"n", "a", "n">>, <<"N", "a", "N">>} THEN NaN
    ELSE IF Len(value) >= 3 /\ value[Len(value) - 1] = "."
            /\ IsDigits(SubSeq(value, 1, Len(value) - 2))
            /\ IsDigit(value[Len(value)])
    THEN decimal(10 * DigitsValue(SubSeq(value, 1, Len(value) - 2))
                    + DigitValue(value[Len(value)]))
    ELSE NoResult

display_decimal(value) ==
    IF "nan" \in DOMAIN value THEN <<"N", "a", "N">>
    ELSE NatText(value.d \div 10) \o <<".">> \o NatText(value.d % 10)

\* str.replace of a two-character text by one character, and of one
\* character by a two-character text
RECURSIVE Replace2(_, _, _)
Replace2(text, old, new) ==
    IF Len(text) < 2 THEN text
    ELSE IF SubSeq(text, 1, 2) = old
    THEN <<new>> \o Replace2(SubSeq(text, 3, Len(text)), old, new)
    ELSE <<text[1]>> \o Replace2(Tail(text), old, new)

RECURSIVE Replace1(_, _, _)
Replace1(text, old, new) ==
    IF text = << >> THEN text
    ELSE (IF text[1] = old THEN new ELSE <<text[1]>>)
            \o Replace1(Tail(text), old, new)

read_string(value) ==
    string(Replace2(Replace2(SubSeq(value, 2, Len(value) - 1),
                             <<"\\", "\"">>, "\""),
                    <<"\\", "\\">>, "\\"))

display_string(value) ==
    <<"\"">>
        \o Replace1(Replace1(value.s, "\\", <<"\\", "\\">>),
                    "\"", <<"\\", "\"">>)
        \o <<"\"">>

read_symbol(value) == intern(value)
display_symbol(value) == value.n

(* ------------------------------- reader -------------------------------- *)

\* What a reading function returns (a value and the port as it left it) or
\* raises
Read(value, port) == [err |-> "", value |-> value, port |-> port]
ReadError(e, port) == [err |-> e, value |-> Nil, port |-> port]

\* The quote tokens (the keys of reader.quotes)
quoteTokens == {<<"'">>, <<grave>>, <<",">>, <<",", "@">>}

\* The symbol a quote token stands for (reader.quotes)
quotes(atom) ==
    CASE atom = <<"'">> -> Text_quote
      [] atom = <<grave>> -> Text_quasiquote
      [] atom = <<",">> -> Text_unquote
      [] atom = <<",", "@">> -> Text_unquote_splicing

read_as_first(val) ==
    IF read_boolean(val) # NoResult THEN read_boolean(val)
    ELSE IF read_integer(val) # NoResult THEN read_integer(val)
    ELSE IF read_decimal(val) # NoResult THEN read_decimal(val)
    ELSE read_symbol(val)

RECURSIVE read(_)
RECURSIVE read_list(_)
RECURSIVE read_list_tail(_)
RECURSIVE read_cons_head(_)
RECURSIVE read_cons_tail(_, _)
RECURSIVE read_atom(_, _)

\* cons(first, rest(port)) where first has been read
ConsWith(first, rest) ==
    IF first.err # "" THEN first
    ELSE IF rest.err # "" THEN rest
    ELSE Read(Cons(first.value, rest.value), rest.port)

\* first, then the rest of the list: cons(first, read_list_tail(port))
first_then_list_tail(first) ==
    IF first.err # "" THEN first
    ELSE ConsWith(first, read_list_tail(first.port))

\* first, then the end of the pair: read_cons_tail(first, port)
first_then_cons_tail(first) ==
    IF first.err # "" THEN first
    ELSE read_cons_tail(first.value, first.port)

\* The form that starts with the token head_, when it is not a closing
\* parenthesis: a list after an opening parenthesis, an atom otherwise
read_form(head_) ==
    IF head_.token = <<"(">> THEN read_list(head_.port)
    ELSE read_atom(head_.token, head_.port)

\* read, once its first token head_ is read
read_head(head_) ==
    IF head_.err # "" THEN ReadError(head_.err, head_.port)
    ELSE IF head_.token = << >> THEN Read(EOF, head_.port)
    ELSE IF head_.token = <<")">> THEN ReadError("SyntaxError", head_.port)
    ELSE read_form(head_)

read(port) == read_head(read_token(port))

\* read_list, once its first token head_ is read
read_list_head(head_) ==
    IF head_.err # "" THEN ReadError(head_.err, head_.port)
    ELSE IF head_.token = << >> THEN ReadError("SyntaxError", head_.port)
    ELSE IF head_.token = <<")">> THEN Read(Nil, head_.port)
    ELSE first_then_list_tail(read_form(head_))

read_list(port) == read_list_head(read_token(port))

\* read_list_tail, once its first token head_ is read
read_list_tail_head(head_) ==
    IF head_.err # "" THEN ReadError(head_.err, head_.port)
    ELSE IF head_.token = << >> THEN ReadError("SyntaxError", head_.port)
    ELSE IF head_.token = <<")">> THEN Read(Nil, head_.port)
    ELSE IF head_.token = <<".">> THEN read_cons_head(head_.port)
    ELSE first_then_list_tail(read_form(head_))

read_list_tail(port) == read_list_tail_head(read_token(port))

\* read_cons_head, once its first token head_ is read
read_cons_head_head(head_) ==
    IF head_.err # "" THEN ReadError(head_.err, head_.port)
    ELSE IF head_.token = << >> \/ head_.token = <<")">>
    THEN ReadError("SyntaxError", head_.port)
    ELSE first_then_cons_tail(read_form(head_))

read_cons_head(port) == read_cons_head_head(read_token(port))

\* A read_cons_tail that takes only a closing parenthesis
read_cons_tail_strict(first, port) ==
    IF read_token(port).err # ""
    THEN ReadError(read_token(port).err, read_token(port).port)
    ELSE IF read_token(port).token = <<")">>
    THEN Read(first, read_token(port).port)
    ELSE ReadError("SyntaxError", read_token(port).port)

\* read_cons_tail, once its token tail_ is read
read_cons_tail_token(first, tail_) ==
    IF tail_.err # "" THEN ReadError(tail_.err, tail_.port)
    ELSE IF tail_.token = << >> THEN ReadError("SyntaxError", tail_.port)
    ELSE IF tail_.token = <<")">> THEN Read(first, tail_.port)
    ELSE IF tail_.token = <<".">>
    THEN ConsWith(Read(first, tail_.port), read_cons_head(tail_.port))
    ELSE ReadError("SyntaxError", tail_.port)

read_cons_tail(first, port) == read_cons_tail_token(first, read_token(port))

\* A read_atom that quotes whatever read returned
read_quoted_unchecked(atom, quoted) ==
    IF quoted.err # "" THEN quoted
    ELSE Read(list(<<intern(quotes(atom)), quoted.value>>), quoted.port)

\* list(symbols[quotes[atom]], quoted), unless quoted is EOF
read_quoted(atom, quoted) ==
    IF quoted.err # "" THEN quoted
    ELSE IF quoted.value = EOF THEN ReadError("SyntaxError", quoted.port)
    ELSE Read(list(<<intern(quotes(atom)), quoted.value>>), quoted.port)

read_atom(atom, port) ==
    IF atom \in quoteTokens
    THEN read_quoted(atom, read(port))
    ELSE IF atom[1] = "\"" THEN Read(read_string(atom), port)
    ELSE Read(read_as_first(atom), port)

(* ------------------------------- printer ------------------------------- *)

\* What display returns (a text) or raises
Shown(text) == [err |-> "", text |-> text]
ShowError(e) == [err |-> e, text |-> << >>]

display_nil(value) == <<"(", ")">>
display_boolean(value) == IF value.b THEN <<"#", "t">> ELSE <<"#", "f">>

quote_p(value) ==
    cons_p(value)
        /\ head(value) \in {intern(Text_quote), intern(Text_quasiquote),
                            intern(Text_unquote),
                            intern(Text_unquote_splicing)}

RECURSIVE display(_)
RECURSIVE display_parts(_)

\* The loop of display_cons: the parts of the pairs of value, then "." and
\* the last tail unless it is nil
display_parts(value) ==
    IF cons_p(value)
    THEN LET first == display(head(value))
             rest == display_parts(tail(value))
         IN  IF first.err # "" THEN first
             ELSE IF rest.err # "" THEN rest
             ELSE Shown(first.text
                        \o (IF rest.text = << >> THEN << >> ELSE <<" ">>)
                        \o rest.text)
    ELSE IF nil_p(value) THEN Shown(<< >>)
    ELSE LET last_ == display(value)
         IN  IF last_.err # "" THEN last_
             ELSE Shown(<<".", " ">> \o last_.text)

display_cons(value) ==
    LET parts == display_parts(value)
    IN  IF parts.err # "" THEN parts
        ELSE Shown(<<"(">> \o parts.text \o <<")">>)

\* quote, form = flatten(value): AttributeError when value is not a proper
\* list, ValueError when it has not two elements
display_quote(value) ==
    IF ~list_p(value) THEN ShowError("AttributeError")
    ELSE IF Len(flatten(value)) # 2 THEN ShowError("ValueError")
    ELSE LET quote_ == flatten(value)[1]
             form == display(flatten(value)[2])
             prefix == CASE quote_ = intern(Text_quote) -> <<"'">>
                         [] quote_ = intern(Text_quasiquote) -> <<grave>>
                         [] quote_ = intern(Text_unquote) -> <<",">>
                         [] quote_ = intern(Text_unquote_splicing) ->
                                <<",", "@">>
         IN  IF form.err # "" THEN form ELSE Shown(prefix \o form.text)

display(value) ==
    IF quote_p(value) THEN display_quote(value)
    ELSE IF cons_p(value) THEN display_cons(value)
    ELSE IF symbol_p(value) THEN Shown(display_symbol(value))
    ELSE IF value.t = "str" THEN Shown(display_string(value))
    ELSE IF nil_p(value) THEN Shown(display_nil(value))
    ELSE IF value.t = "bool" THEN Shown(display_boolean(value))
    ELSE IF value.t = "int" THEN Shown(display_integer(value))
    ELSE Shown(display_decimal(value))

(* ---------------------------- the trampoline --------------------------- *)

VARIABLES
    prog,     \* the form given to BaseSession.eval
    cont,     \* run: continuation
    env,      \* run: env (a node of envs)
    macros,   \* run: macros (a node of menvs)
    args,     \* run: args
    envs,     \* the value environments
    menvs,    \* the macro environments
    status,   \* "run", "done" (run returned) or "error" (an exception left run)
    err,      \* the exception
    steps,    \* iterations of the loop of run so far
    last,     \* history: the continuation applied by the last iteration
    calls,    \* history: the procedure calls made with a target continuation
              \* and not yet completed, innermost last
    entered,  \* history: the state each procedure call left, in order
    defs,     \* history: the value last bound to a symbol in an environment
    source,   \* the text a port is opened on
    port,     \* the port read is called with
    form,     \* what read returned for the source
    garbage,  \* the text put after the display of form
    reread,   \* what read returned for the display of form
    rest,     \* what read_port_fully returned after that
    pairs,    \* the (intertoken, token) pairs the source text is made of
    tokens,   \* history: the tokens read_token has returned
    taken,    \* history: the results of the read calls, concatenated
    peeked,   \* history: the result of the last peek call
    expansion, \* what expand returned
    again,    \* what expand returned for the expansion
    given,    \* the arguments a host function is called with
    result,   \* what the host function returned or raised
    table,    \* the SymbolTable: the Symbol object stored for each text
    made,     \* the Symbol objects created so far: the text of each
    looked    \* history: the lookups, each a text and the object returned

otherVars == <<pairs, tokens, taken, peeked, expansion>>

libraryVars == <<again, given, result, table, made, looked>>

readerVars == <<source, port, form, garbage, reread, rest, pairs, tokens,
                taken, peeked, expansion, again, given, result, table, made,
                looked>>

evalVars == <<prog, cont, env, macros, args, envs, menvs, steps, calls,
              entered, defs>>

vars == <<prog, cont, env, macros, args, envs, menvs, status, err, steps,
          last, calls, entered, defs, source, port, form, garbage, reread,
          rest, pairs, tokens, taken, peeked, expansion, again, given, result,
          table, made, looked>>

\* No host function is being called and the symbol table is empty
NoLibrary ==
    /\ again = Nil
    /\ given = << >>
    /\ result = Nil
    /\ table = EmptyDict
    /\ made = << >>
    /\ looked = << >>

\* No text is being read
NoReading ==
    /\ source = << >>
    /\ port = string_to_input_port(<< >>)
    /\ form = Nil
    /\ garbage = << >>
    /\ reread = Nil
    /\ rest = << >>
    /\ pairs = << >>
    /\ tokens = << >>
    /\ taken = << >>
    /\ peeked = << >>
    /\ expansion = Nil
    /\ NoLibrary

\* The innermost continuation under the guards of tail_graft
RECURSIVE Unguard(_)
Unguard(c) == IF c.k = "guard" THEN Unguard(c.guarded) ELSE c

\* The number of guards nested around a continuation
RECURSIVE GuardDepth(_)
GuardDepth(c) == IF c.k = "guard" THEN 1 + GuardDepth(c.guarded) ELSE 0

\* The length of the parent chain of node e of heap H
RECURSIVE ChainLength(_, _)
ChainLength(H, e) == IF e = 0 THEN 0 ELSE 1 + ChainLength(H, H[e].parent)

\* BaseSession.__init__: self.environment and self.macros, each the only
\* node of its heap
SessionEnvs == <<Environment(SessionBindings, 0)>>
SessionMacros == <<Environment(<< >>, 0)>>

\* No call is waiting for a callee
NoFrame == [continuation |-> NoneK, env |-> 0, macros |-> 0, heap |-> << >>]

\* BaseSession.__init__ and BaseSession.eval up to the call of run
Init ==
    /\ prog \in Programs
    /\ cont = eval(prog, NoneK)
    /\ env = 1
    /\ macros = 1
    /\ args = << >>
    /\ envs = SessionEnvs
    /\ menvs = SessionMacros
    /\ status = IF Raised(eval(prog, NoneK)) THEN "error" ELSE "run"
    /\ err = IF Raised(eval(prog, NoneK)) THEN eval(prog, NoneK).err ELSE ""
    /\ steps = 0
    /\ last = [k |-> "init", ev |-> NoEvent]
    /\ calls = << >>
    /\ entered = << >>
    /\ defs = EmptyDict
    /\ NoReading

\* One iteration of the loop of run:
\*     continuation, env, macros, *args = continuation(env, macros, *args)
\* (applied is what the continuation returned or raised)
Iterate(applied) ==
    /\ status = "run"
    /\ steps < MaxSteps
    /\ LET r == applied
           c == Unguard(cont)
       IN  /\ cont' = r.next
           /\ env' = IF r.err = "" THEN r.env ELSE env
           /\ macros' = IF r.err = "" THEN r.macros ELSE macros
           /\ args' = r.args
           /\ envs' = r.envs
           /\ menvs' = r.menvs
           /\ status' = IF r.err = "" THEN "run" ELSE "error"
           /\ err' = r.err
           /\ last' = [k |-> c.k, c |-> c, env |-> env, macros |-> macros,
                       args |-> args, ev |-> r.ev,
                       frame |-> IF calls = << >> THEN NoFrame
                                 ELSE calls[Len(calls)]]
           /\ calls' =
                IF r.ev.e = "call" /\ r.ev.continuation # NoneK
                THEN Append(calls, [continuation |-> r.ev.continuation,
                                    env |-> r.ev.env, macros |-> r.ev.macros,
                                    heap |-> envs])
                ELSE IF r.ev.e = "return"
                THEN SubSeq(calls, 1, Len(calls) - 1)
                ELSE calls
           /\ entered' =
                IF r.ev.e = "call"
                THEN Append(entered,
                            [fn |-> r.ev.fn,
                             tail |-> r.ev.continuation = NoneK,
                             parent |-> r.menvs[r.ev.call_macros].parent,
                             site |-> r.ev.macros,
                             guards |-> GuardDepth(r.next),
                             envChain |-> ChainLength(r.envs, r.env),
                             macroChain |-> ChainLength(r.menvs, r.macros)])
                ELSE entered
           /\ defs' =
                IF r.err = "" /\ c.k = "bind"
                THEN update(defs, << << <<env, c.symbol>>, args[1] >> >>)
                ELSE defs
    /\ steps' = steps + 1
    /\ UNCHANGED <<prog, readerVars>>

\* The iteration, by the kind of continuation run holds
Literal ==
    /\ cont.k = "literal"
    /\ Iterate(literalStep(cont, env, macros, args, envs, menvs))
Lookup ==
    /\ cont.k = "symbol"
    /\ Iterate(symbolStep(cont, env, macros, args, envs, menvs))
MakeProcedure ==
    /\ cont.k = "lambda"
    /\ Iterate(lambda__(cont, env, macros, args, envs, menvs))
Bind ==
    /\ cont.k = "bind"
    /\ Iterate(bind_(cont, env, macros, args, envs, menvs))
MacroBind ==
    /\ cont.k = "macro_bind"
    /\ Iterate(macro_bind_(cont, env, macros, args, envs, menvs))
Branch ==
    /\ cont.k = "branch"
    /\ Iterate(branchStep(cont, env, macros, args, envs, menvs))
AppendValues ==
    /\ cont.k = "append"
    /\ Iterate(appendStep(cont, env, macros, args, envs, menvs))
BeginLast ==
    /\ cont.k = "begin"
    /\ Iterate(beginStep(cont, env, macros, args, envs, menvs))
Invoke ==
    /\ cont.k = "invoke"
    /\ Iterate(invoke_(cont, env, macros, args, envs, menvs))
Guarded ==
    /\ cont.k = "guard"
    /\ Iterate(guard(cont, env, macros, args, envs, menvs))
Define ==
    /\ cont.k = "define"
    /\ Iterate(defineStep(cont, env, macros, args, envs, menvs))
ApplyNil ==
    /\ cont.k = "apply_nil"
    /\ Iterate(applyNilStep(cont, env, macros, args, envs, menvs))
ApplyCons ==
    /\ cont.k = "apply_cons"
    /\ Iterate(applyConsStep(cont, env, macros, args, envs, menvs))

\* The loop of run ends: the continuation is None and run returns the args
Return ==
    /\ status = "run"
    /\ cont = NoneK
    /\ status' = "done"
    /\ UNCHANGED <<prog, cont, env, macros, args, envs, menvs, err, steps,
                   last, calls, entered, defs, readerVars>>

Next ==
    \/ Literal \/ Lookup \/ MakeProcedure \/ Bind \/ MacroBind \/ Branch
    \/ AppendValues \/ BeginLast \/ Invoke \/ Guarded \/ Define
    \/ ApplyNil \/ ApplyCons \/ Return

Spec == Init /\ [][Next]_vars

(* ------------------------- procedure calls ----------------------------- *)

\* The last iteration completed a procedure call that had a target
\* continuation (the guard of tail_graft saw its guarded continuation
\* chain to None)
Returned == last.ev.e = "return"

\* C1: when a procedure invoked with a non-empty target continuation k
\* completes, k is what run holds next, with the value environment that
\* was current where the call was made, whatever the callee defined and
\* whatever calls it made.
C1_CallerEnvRestored ==
    Returned =>
        /\ last.frame # NoFrame
        /\ Unguard(cont) = last.frame.continuation
        /\ env = last.frame.env

\* A call returns to its caller from a callee that made a binding of its
\* own, after a tail call and while an outer call is still waiting.
C1_Witness ==
    /\ Returned
    /\ env = last.frame.env
    /\ calls # << >>
    /\ \E i \in DOMAIN entered : entered[i].tail
    /\ \E e \in DOMAIN envs : e # last.frame.env /\ S("x") \in DOMAIN envs[e].b

\* C2: when a procedure invoked with a non-empty target continuation
\* completes, the target continuation is resumed with the macro environment
\* that was current where the call was made.
C2_CallerMacrosRestored ==
    Returned => macros = last.frame.macros

\* C3: every procedure invocation runs the body under a new macro
\* environment whose parent is the macro environment the procedure captured
\* when its lambda was evaluated.
C3_CalleeMacrosFromCapture ==
    \A i \in DOMAIN entered : entered[i].parent = entered[i].fn.macros

\* C4: while the self-calling procedure of primer.py loops, the nesting of
\* guards and the lengths of the two environment chains never exceed what
\* they were when the procedure was first entered.
C4_TailLoopBounded ==
    (prog = PrimerProgram /\ entered # << >> /\ status = "run") =>
        /\ GuardDepth(cont) <= entered[1].guards
        /\ ChainLength(envs, env) <= entered[1].envChain
        /\ ChainLength(menvs, macros) <= entered[1].macroChain

\* The last iteration made a procedure call whose target continuation is
\* None
TailCalled == last.ev.e = "call" /\ last.ev.continuation = NoneK

\* What tail_graft keeps: the guards nested around the continuation are as
\* many as the calls made with a target continuation that have not returned
GuardsCountGrafts == status = "run" => GuardDepth(cont) = Len(calls)

\* A call made with target continuation c is in tail position: its result
\* is the result of the body it is made in. c is None, or c is what is
\* left of a begin after its last form (append, the end of apply, begin)
\* and the begin is itself in tail position.
RECURSIVE PassesResult(_)
PassesResult(c) ==
    \/ c = NoneK
    \/ /\ c.k = "append"
       /\ c.continuation.k = "apply_nil"
       /\ c.continuation.continuation.k = "begin"
       /\ PassesResult(c.continuation.continuation.continuation)

\* The calls that have not returned and were made in non-tail position
NonTailCalls(pending) ==
    Cardinality({i \in DOMAIN pending :
                    ~PassesResult(pending[i].continuation)})

Branched ==
    /\ last.k = "branch"
    /\ status = "run"
    /\ last.c.on_true # last.c.on_false

\* The values Python takes for false
Falsy ==
    {false, Nil, integer(0), decimal(0), string(""), vector(<< >>)}

RECURSIVE run(_, _, _, _, _, _, _, _)
run(continuation, e, m, a, H, MH, n, count) ==
    IF continuation = NoneK
    THEN [err |-> "", args |-> a, env |-> e, macros |-> m, envs |-> H,
          menvs |-> MH, steps |-> count]
    ELSE IF n = 0
    THEN [err |-> "fuel", args |-> a, env |-> e, macros |-> m, envs |-> H,
          menvs |-> MH, steps |-> count]
    ELSE LET r == Step(continuation, e, m, a, H, MH)
         IN  IF r.err # ""
             THEN [err |-> r.err, args |-> << >>, env |-> e, macros |-> m,
                   envs |-> r.envs, menvs |-> r.menvs, steps |-> count + 1]
             ELSE run(r.next, r.env, r.macros, r.args, r.envs, r.menvs,
                      n - 1, count + 1)

\* BaseSession.eval of an expanded form, in a session whose heaps are H and
\* MH: compile with no target continuation, then run in the session's two
\* environments
SessionEval(expanded, H, MH) ==
    LET cps == eval(expanded, NoneK)
    IN  IF Raised(cps)
        THEN [err |-> cps.err, args |-> << >>, env |-> 1, macros |-> 1,
              envs |-> H, menvs |-> MH, steps |-> 0]
        ELSE run(cps, 1, 1, << >>, H, MH, MaxSteps, 0)

\* What is observed of a value: a procedure by its body, formals and
\* captured value environment (the evaluator never reads a macro
\* environment: the one a procedure captured is left out)
RECURSIVE Observed(_)
Observed(v) ==
    CASE v.t = "proc" -> [v EXCEPT !.macros = 0]
      [] v.t = "cons" -> Cons(Observed(v.head), Observed(v.tail))
      [] v.t = "vec" -> vector([i \in DOMAIN v.elems |-> Observed(v.elems[i])])
      [] OTHER -> v

ObservedArgs(a) == [i \in DOMAIN a |-> Observed(a[i])]

\* The bindings of every value environment
ObservedEnvs(H) ==
    [e \in DOMAIN H |->
        [b |-> [x \in DOMAIN H[e].b |-> Observed(H[e].b[x])],
         parent |-> H[e].parent]]

\* The forms of a sequence evaluated in order, each as a top-level form of
\* the session, the values they yield concatenated; between two forms the
\* list costs two iterations (the closure of apply, and append)
RECURSIVE EvalInOrder(_, _)
EvalInOrder(forms, acc) ==
    IF forms = << >> \/ acc.err # "" THEN acc
    ELSE LET r == SessionEval(forms[1], acc.envs, acc.menvs)
         IN  EvalInOrder(Tail(forms),
                 [err |-> r.err, args |-> acc.args \o r.args,
                  envs |-> r.envs, menvs |-> r.menvs,
                  steps |-> acc.steps + 1 + r.steps
                            + (IF r.err = "" THEN 1 ELSE 0)])

Fresh ==
    [err |-> "", args |-> << >>, envs |-> SessionEnvs,
     menvs |-> SessionMacros, steps |-> 0]

\* What the run of the session has in common with a reference evaluation:
\* it ended the same way, with the same observed values and bindings,
\* after as many iterations
EndedLike(r) ==
    /\ status = (IF r.err = "" THEN "done" ELSE "error")
    /\ err = r.err
    /\ ObservedArgs(args) = ObservedArgs(r.args)
    /\ ObservedEnvs(envs) = ObservedEnvs(r.envs)
    /\ steps = r.steps

Ended == status \in {"done", "error"}

(* -------------------------------- if ----------------------------------- *)

\* (if c t f) as c followed by one of t and f: c is evaluated, branch
\* consumes its one value in one iteration, then the chosen form is
\* evaluated in what c left
IfReference(c, t, f) ==
    LET rc == SessionEval(c, SessionEnvs, SessionMacros)
    IN  IF rc.err # "" THEN rc
        ELSE IF Len(rc.args) # 1
        THEN [rc EXCEPT !.err = "TypeError", !.args = << >>, !.steps = @ + 1]
        ELSE LET chosen == IF rc.args[1] \in Falsy THEN f ELSE t
                 rt == SessionEval(chosen, rc.envs, rc.menvs)
             IN  [rt EXCEPT !.steps = rc.steps + 1 + @]

\* C6: evaluating (if c t f) evaluates c once and then exactly one of t
\* and f: the values are those of the chosen branch, the bindings are those
\* made by c and then by the chosen branch, and the iterations made are
\* those of c, one for the branch, and those of the chosen form.
C6_IfIsConditionThenBranch ==
    (Ended /\ prog \in IfPrograms) =>
        LET forms == flatten(tail(prog))
        IN  EndedLike(IfReference(forms[1], forms[2], forms[3]))

\* An if ended whose condition and whose chosen branch each made a binding.
C6_Witness ==
    /\ status = "done"
    /\ prog \in IfPrograms
    /\ S("x") \in DOMAIN envs[1].b
    /\ S("y") \in DOMAIN envs[1].b

(* ------------------------------ define --------------------------------- *)

\* C7: (define s e) yields no values, and straight after it the value
\* environment it was evaluated in binds s to the value of e (that
\* environment is still the current one unless the define ended a procedure
\* body); every later lookup of s made in that environment yields the value
\* last defined there.
C7_DefineBindsAtOnce ==
    /\ (last.k = "bind" /\ status = "run") =>
            /\ args = << >>
            /\ find(envs, last.env, last.c.symbol) = last.args[1]
            /\ ~Returned => env = last.env
    /\ (last.k = "symbol" /\ status = "run"
            /\ <<last.env, last.c.symb>> \in DOMAIN defs) =>
            args = <<defs[<<last.env, last.c.symb>>]>>

\* A symbol is looked up in the environment where a define bound it, for
\* the second time at least after two defines of it.
C7_Witness ==
    /\ last.k = "symbol"
    /\ status = "run"
    /\ <<last.env, last.c.symb>> \in DOMAIN defs
    /\ args = <<integer(2)>>
    /\ prog \in BeginPrograms

(* ------------------------ application and begin ------------------------ *)

\* (e0 e1 ... en): the forms in order, one iteration for the closure of the
\* empty list, then invoke applied to the values
AppReference(forms) ==
    LET r == EvalInOrder(forms, Fresh)
        call == run(invoke(NoneK), 1, 1, r.args, r.envs, r.menvs, MaxSteps, 0)
    IN  IF r.err # "" THEN r
        ELSE [err |-> call.err, args |-> call.args, envs |-> call.envs,
              menvs |-> call.menvs, steps |-> r.steps + 1 + call.steps]

\* (begin e1 ... en): the forms in order, one iteration for the closure of
\* the empty list and one for begin
BeginReference(forms) ==
    LET r == EvalInOrder(forms, Fresh)
    IN  IF r.err # "" THEN r
        ELSE [r EXCEPT !.steps = @ + 2,
                       !.args = IF @ = << >> THEN << >> ELSE <<@[Len(@)]>>]

\* C8: the sub-forms of an application are evaluated left to right from
\* e0, each once, and the callee is invoked after the last; the forms of a
\* begin are evaluated top-down: the run ends as the forms evaluated one
\* after the other end, with the same bindings after as many iterations.
C8_LeftToRightOnce ==
    /\ (Ended /\ prog \in AppPrograms) =>
            LET r == AppReference(flatten(prog))
            IN  /\ err = r.err
                /\ ObservedEnvs(envs) = ObservedEnvs(r.envs)
                /\ steps = r.steps
    /\ (Ended /\ prog \in BeginPrograms) =>
            LET r == BeginReference(flatten(tail(prog)))
            IN  /\ err = r.err
                /\ ObservedEnvs(envs) = ObservedEnvs(r.envs)
                /\ steps = r.steps

\* (e0 (begin (define x 2) x) (define x 1)) ended: the later define of x is
\* the one that lasts.
C8_Witness ==
    /\ status = "done"
    /\ prog \in AppPrograms
    /\ LET forms == flatten(prog)
       IN  /\ Len(forms) = 3
           /\ forms[2] = Begin(<<Def("x", integer(2)), S("x")>>)
           /\ forms[3] = Def("x", integer(1))
    /\ envs[1].b[S("x")] = integer(1)

\* C9: the values of the sub-forms of an application, concatenated in
\* order, are what invoke receives: the first is the callee, the others its
\* arguments; the tuple left when the chain ends is what run returns.
C9_ValuesFlattened ==
    (status = "done" /\ prog \in AppPrograms) =>
        LET vals == EvalInOrder(flatten(prog), Fresh).args
        IN  /\ vals # << >>
            /\ vals[1].t = "prim" =>
                    ObservedArgs(args)
                        = ObservedArgs(CallPrim(vals[1].name, Tail(vals)))
            /\ ObservedArgs(args)
                    = ObservedArgs(AppReference(flatten(prog)).args)

\* (values (values) (values 1 list)) ended: a sub-form of no value and one
\* of two values give the callee two arguments.
C9_Witness ==
    /\ status = "done"
    /\ prog = L(<<S("values"), L(<<S("values")>>),
                  L(<<S("values"), integer(1), S("list")>>)>>)
    /\ args = <<integer(1), Prim("list")>>

\* C10: (begin e1 ... en) yields at most one value, the last of the values
\* its forms yield in order, and none when they yield none; (begin) yields
\* none and (begin 1 2 3) yields 3.
C10_BeginYieldsLast ==
    (status = "done" /\ prog \in BeginPrograms) =>
        LET vals == EvalInOrder(flatten(tail(prog)), Fresh).args
        IN  /\ Len(args) <= 1
            /\ ObservedArgs(args) =
                    ObservedArgs(IF vals = << >> THEN << >>
                                 ELSE <<vals[Len(vals)]>>)
            /\ prog = Begin(<< >>) => args = << >>
            /\ prog = Begin(<<integer(1), integer(2), integer(3)>>)
                    => args = <<integer(3)>>

\* A begin ended whose last form yields no value and whose form before it
\* yields two: the second of the two is the value.
C10_Witness ==
    /\ status = "done"
    /\ prog = Begin(<<L(<<S("values"), integer(1), S("list")>>),
                      Def("x", integer(1))>>)
    /\ args = <<Prim("list")>>

(* ------------------------------ errors --------------------------------- *)

\* C11: when an iteration raises, the evaluation has ended with that error
\* and no further iteration is made; every binding a define made before it
\* is still in the environment it was made in, and for a begin or an
\* application the bindings are those of the forms up to the failing one
\* and of no later form.
C11_ErrorEndsEvaluation ==
    status = "error" =>
        /\ err # ""
        /\ ~ENABLED Next
        /\ \A d \in DOMAIN defs :
                /\ d[1] \in DOMAIN envs
                /\ d[2] \in DOMAIN envs[d[1]].b
                /\ envs[d[1]].b[d[2]] = defs[d]
        /\ prog \in BeginPrograms =>
                LET r == EvalInOrder(flatten(tail(prog)), Fresh)
                IN  /\ r.err = err
                    /\ ObservedEnvs(envs) = ObservedEnvs(r.envs)
        /\ prog \in AppPrograms =>
                LET r == AppReference(flatten(prog))
                IN  /\ r.err = err
                    /\ ObservedEnvs(envs) = ObservedEnvs(r.envs)

\* An application failed after a define of x in the session's environment
\* completed, and x is still bound there.
C11_Witness ==
    /\ status = "error"
    /\ prog \in AppPrograms
    /\ <<1, S("x")>> \in DOMAIN defs
    /\ S("x") \in DOMAIN envs[1].b
    /\ steps > 3

(* --------------------------- calling procedures ------------------------ *)

\* The continuation run holds is invoke, about to be applied to a
\* procedure and its arguments
Invoking ==
    /\ status = "run"
    /\ steps < MaxSteps
    /\ Unguard(cont).k = "invoke"
    /\ args # << >>
    /\ args[1].t = "proc"

Entered == status = "run" /\ last.ev.e = "call"

\* C13: the environment a procedure is entered with binds each formal to
\* the argument at its position, binds the tail formal (if any) to the list
\* of the remaining arguments, binds nothing else, and has the environment
\* the procedure captured as its parent: a name that is not a formal is
\* found as the captured environment finds it.
C13_InvocationEnvironment ==
    Entered =>
        LET fn == last.ev.fn
            actuals == Tail(last.args)
            n == Len(fn.formals)
            node == envs[last.ev.call_env]
            names == {fn.formals[i] : i \in 1..n}
                        \cup (IF fn.tail_formal = Nil THEN {}
                              ELSE {fn.tail_formal})
        IN  /\ env = last.ev.call_env
            /\ DOMAIN node.b = names
            /\ \A i \in 1..n : node.b[fn.formals[i]] = actuals[i]
            /\ fn.tail_formal # Nil =>
                    node.b[fn.tail_formal]
                        = list(SubSeq(actuals, n + 1, Len(actuals)))
            /\ node.parent = fn.environment
            /\ \A x \in {S("x"), S("w"), S("a"), S("p")} \ names :
                    find(envs, env, x) = find(envs, fn.environment, x)

\* p, of formals (a . r), was entered with three arguments from a caller
\* whose x is 7: r is the list (12 13) and x is found as 5, the x of the
\* environment p was made in.
C13_Witness ==
    /\ Entered
    /\ last.ev.fn.formals = <<S("a")>>
    /\ last.ev.fn.tail_formal = S("r")
    /\ envs[env].b[S("r")] = L(<<integer(12), integer(13)>>)
    /\ find(envs, last.ev.env, S("x")) = integer(7)
    /\ find(envs, env, S("x")) = integer(5)

\* Procedure.__call__: the procedure applied by the host (as the expander
\* applies a macro transformer): its body is run to the end in a new
\* invocation environment and a new child of its captured macros
call(fn, actuals, H, MH) ==
    IF ArityError(fn, actuals)
    THEN [err |-> "ProcedureError", args |-> << >>, env |-> 0, macros |-> 0,
          envs |-> H, menvs |-> MH, steps |-> 0]
    ELSE run(fn.continuation, Len(H) + 1, Len(MH) + 1, << >>,
             Append(H, invocation_environment(fn, actuals)),
             Append(MH, Environment(<< >>, fn.macros)), MaxSteps, 0)

\* C14: what a procedure body defines goes into the environment of that
\* call only. When a call returns, every environment that existed when it
\* was made, the caller's and the session's among them, is as it was; and
\* a procedure applied by the host, as a macro transformer is, leaves every
\* environment that existed before as it was.
C14_DefineStaysInCall ==
    /\ Returned =>
            /\ last.frame.heap # << >>
            /\ \A e \in DOMAIN last.frame.heap :
                    envs[e] = last.frame.heap[e]
    /\ (Entered /\ prog \notin LoopPrograms) =>
            LET H == SubSeq(envs, 1, Len(envs) - 1)
                MH == SubSeq(menvs, 1, Len(menvs) - 1)
                r == call(last.ev.fn, Tail(last.args), H, MH)
            IN  /\ r.err # "fuel"
                /\ \A e \in DOMAIN H : r.envs[e] = H[e]

\* p returned after defining w and x: w is bound in p's own environment
\* and nowhere in the caller's chain, and x is still 7 for the caller and 0
\* in the session.
C14_Witness ==
    /\ Returned
    /\ prog \in ProcPrograms
    /\ \E e \in DOMAIN envs :
            /\ e \notin DOMAIN last.frame.heap
            /\ S("w") \in DOMAIN envs[e].b
            /\ envs[e].b[S("x")] = integer(9)
    /\ find(envs, env, S("w")) = Absent
    /\ S("w") \notin DOMAIN envs[1].b
    /\ find(envs, env, S("x")) = integer(7)
    /\ envs[1].b[S("x")] = integer(0)

(* ---------------------------- environments ----------------------------- *)

\* The most nodes of a heap of environments
MaxNodes == 3

\* The names and the values bound
EnvNames == {S("x"), S("y")}
EnvValues == {Nil, integer(1)}

\* One empty environment with no parent; nothing has been done yet
EnvInit ==
    /\ envs = <<Environment(<< >>, 0)>>
    /\ last = [k |-> "init"]
    /\ prog = Nil
    /\ cont = NoneK
    /\ env = 1
    /\ macros = 1
    /\ args = << >>
    /\ menvs = SessionMacros
    /\ status = "env"
    /\ err = ""
    /\ steps = 0
    /\ calls = << >>
    /\ entered = << >>
    /\ defs = EmptyDict
    /\ NoReading

\* Environment(parent=p): a new empty node, child of the newest node or of
\* the one before it
NewEnvironment ==
    /\ Len(envs) < MaxNodes
    /\ \E p \in {Len(envs), Len(envs) - 1} \ {0} :
            /\ envs' = Append(envs, Environment(<< >>, p))
            /\ last' = [k |-> "new", parent |-> p]
    /\ UNCHANGED <<prog, cont, env, macros, args, menvs, status, err, steps,
                   calls, entered, defs, readerVars>>

\* e.define(name, value)
EnvDefine ==
    /\ \E e \in DOMAIN envs, name \in EnvNames, value \in EnvValues :
            /\ envs' = envDefine(envs, e, name, value)
            /\ last' = [k |-> "define", env |-> e, name |-> name,
                        value |-> value]
    /\ UNCHANGED <<prog, cont, env, macros, args, menvs, status, err, steps,
                   calls, entered, defs, readerVars>>

\* e.find(name): result is the value returned, Absent for BindingError
EnvFind ==
    /\ \E e \in DOMAIN envs, name \in EnvNames :
            last' = [k |-> "find", env |-> e, name |-> name,
                     result |-> find(envs, e, name)]
    /\ UNCHANGED <<prog, cont, env, macros, args, envs, menvs, status, err,
                   steps, calls, entered, defs, readerVars>>

EnvNext == NewEnvironment \/ EnvDefine \/ EnvFind

EnvSpec == EnvInit /\ [][EnvNext]_vars

\* The nodes from e up to the root, e first
RECURSIVE Chain(_, _)
Chain(H, e) == IF e = 0 THEN << >> ELSE <<e>> \o Chain(H, H[e].parent)

\* The positions in the chain of e of the nodes that bind name
Holders(H, e, name) ==
    {i \in DOMAIN Chain(H, e) : name \in DOMAIN H[Chain(H, e)[i]].b}

\* C15: find(name) on a node returns the value bound by the innermost node
\* of its chain (the node first, then its ancestors) that binds name,
\* raises BindingError exactly when no node of the chain binds it, and
\* changes no node.
C15_FindInnermost ==
    [][last'.k = "find" =>
        LET e == last'.env
            name == last'.name
            held == Holders(envs, e, name)
        IN  /\ envs' = envs
            /\ (last'.result = Absent) <=> (held = {})
            /\ held # {} =>
                    LET i == CHOOSE j \in held : \A h \in held : j <= h
                    IN  last'.result = envs[Chain(envs, e)[i]].b[name]]_vars

\* x was found from a node that does not bind it, whose parent binds it to
\* 1 and whose grandparent binds it to Nil: the result is 1.
C15_Witness ==
    /\ last.k = "find"
    /\ last.name = S("x")
    /\ last.result = integer(1)
    /\ S("x") \notin DOMAIN envs[last.env].b
    /\ envs[last.env].parent # 0
    /\ S("x") \in DOMAIN envs[envs[last.env].parent].b
    /\ envs[envs[last.env].parent].parent # 0
    /\ find(envs, envs[envs[last.env].parent].parent, S("x")) = Nil

\* C16: define(x, v) on a node changes that node's binding of x and
\* nothing else: afterwards find(x) on the node returns v, every other
\* binding of the node and every other node are as before, and on every
\* ancestor find of every name returns what it returned before.
C16_DefineLocal ==
    [][last'.k = "define" =>
        LET e == last'.env
            x == last'.name
        IN  /\ find(envs', e, x) = last'.value
            /\ DOMAIN envs' = DOMAIN envs
            /\ \A o \in DOMAIN envs \ {e} : envs'[o] = envs[o]
            /\ envs'[e].parent = envs[e].parent
            /\ DOMAIN envs'[e].b = DOMAIN envs[e].b \cup {x}
            /\ \A n \in DOMAIN envs[e].b \ {x} :
                    envs'[e].b[n] = envs[e].b[n]
            /\ \A i \in 2..Len(Chain(envs, e)), n \in EnvNames :
                    find(envs', Chain(envs, e)[i], n)
                        = find(envs, Chain(envs, e)[i], n)]_vars

\* x was defined as Nil on a node whose parent binds x to 1: the node
\* finds Nil and the parent still finds 1.
C16_Witness ==
    /\ last.k = "define"
    /\ last.name = S("x")
    /\ last.value = Nil
    /\ envs[last.env].parent # 0
    /\ find(envs, last.env, S("x")) = Nil
    /\ find(envs, envs[last.env].parent, S("x")) = integer(1)

(* ----------------------- reading and printing -------------------------- *)

\* The most tokens of a source text
MaxTokens == 3

\* Tokens a source text is made of
SourceTokens ==
    { <<"(">>, <<")">>, <<".">>, <<"'">>, <<"a">>, <<"@", "a">>, Text_quote,
      Text_unquote, <<"7">>, <<"n", "a", "n">> }

\* Other texts: booleans, a negative integer, a decimal, a string with
\* both escapes, a string that is not closed, the other quote tokens,
\* comments and whitespace
OtherTokens ==
    { <<"#", "t">>, <<"#", "f">>, <<"-", "7">>, <<"7", ".", "5">>,
      <<"\"", "a", "\\", "\"", "\\", "\\", "\"">>, <<"\"", "a">>,
      <<grave>>, <<",">>, <<",", "@">>, <<";", "a", "\n", "a">>,
      <<";", "a">>, <<" ", "\n">> }

\* The tokens separated by one space
RECURSIVE Join(_)
Join(texts) ==
    IF texts = << >> THEN << >>
    ELSE IF Len(texts) = 1 THEN texts[1]
    ELSE texts[1] \o <<" ">> \o Join(Tail(texts))

TokenSeqs == UNION {SeqsOfLen(SourceTokens, n) : n \in 0..MaxTokens}

\* Each text of TokenSeqs after the tokens of prefix
After(prefix) == {Join(prefix \o ts) : ts \in TokenSeqs}

\* Texts that open a list, read a and then a dot; some go on with a
DottedSources ==
    After(<<<<"(">>, <<"a">>, <<".">>>>)
        \cup After(<<<<"(">>, <<"a">>, <<".">>, <<"a">>>>)

\* Texts that open a list with the symbol quote
QuoteSources == After(<<<<"(">>, Text_quote>>)

AtomSources ==
    UNION {{t, Join(<<<<"(">>, t, <<")">>>>), Join(<<<<"(">>, t>>),
            <<"'">> \o t, t \o <<" ">> \o t} : t \in OtherTokens}

Sources == After(<< >>) \cup DottedSources \cup QuoteSources \cup AtomSources

\* Texts put after the display of a form
Garbage == {<< >>, <<"b">>, <<" ", "b">>, <<")">>}

\* A port is opened on a source text
ReaderInit ==
    /\ NoLibrary
    /\ source \in Sources
    /\ port = string_to_input_port(source)
    /\ form = Nil
    /\ garbage = << >>
    /\ reread = Nil
    /\ rest = << >>
    /\ pairs = << >>
    /\ tokens = << >>
    /\ taken = << >>
    /\ peeked = << >>
    /\ expansion = Nil
    /\ status = "source"
    /\ err = ""
    /\ last = [k |-> "init"]
    /\ prog = Nil
    /\ cont = NoneK
    /\ env = 1
    /\ macros = 1
    /\ args = << >>
    /\ envs = SessionEnvs
    /\ menvs = SessionMacros
    /\ steps = 0
    /\ calls = << >>
    /\ entered = << >>
    /\ defs = EmptyDict

\* form = read(port, symbols)
ReadSource ==
    /\ status = "source"
    /\ LET r == read(port)
       IN  /\ port' = r.port
           /\ form' = r.value
           /\ err' = r.err
           /\ status' = IF r.err # "" THEN "error"
                        ELSE IF r.value = EOF THEN "eof" ELSE "formed"
    /\ last' = [k |-> "read"]
    /\ UNCHANGED <<evalVars, libraryVars, otherVars, source, garbage, reread,
                   rest>>

\* input = display(form, symbols) + text; port = string_to_input_port(input)
Display ==
    /\ status = "formed"
    /\ \E g \in Garbage :
        LET d == display(form)
        IN  /\ garbage' = g
            /\ port' = IF d.err # "" THEN port
                       ELSE string_to_input_port(d.text \o g)
            /\ err' = d.err
            /\ status' = IF d.err # "" THEN "error" ELSE "displayed"
    /\ last' = [k |-> "display"]
    /\ UNCHANGED <<evalVars, libraryVars, otherVars, source, form, reread,
                   rest>>

\* read(port, symbols) of the displayed form
ReadBack ==
    /\ status = "displayed"
    /\ LET r == read(port)
       IN  /\ port' = r.port
           /\ reread' = r.value
           /\ err' = r.err
           /\ status' = IF r.err # "" THEN "error" ELSE "reread"
    /\ last' = [k |-> "reread"]
    /\ UNCHANGED <<evalVars, libraryVars, otherVars, source, form, garbage,
                   rest>>

\* read_port_fully(port)
ReadFully ==
    /\ status = "reread"
    /\ rest' = read_port_fully(port).chars
    /\ port' = read_port_fully(port).port
    /\ status' = "rest"
    /\ last' = [k |-> "read_fully"]
    /\ UNCHANGED <<evalVars, libraryVars, otherVars, source, form, garbage,
                   reread, err>>

ReaderNext == ReadSource \/ Display \/ ReadBack \/ ReadFully

ReaderSpec == ReaderInit /\ [][ReaderNext]_vars

\* A number in tenths, as the host compares booleans, integers and
\* decimals with one another
Tenths(v) ==
    CASE v.t = "bool" -> IF v.b THEN 10 ELSE 0
      [] v.t = "int" -> 10 * v.i
      [] v.t = "dec" -> v.d

\* v == w of the host: a NaN equals nothing, itself included; conses
\* compare field by field; symbols are interned, so equal names are one
\* symbol
RECURSIVE PyEq(_, _)
PyEq(v, w) ==
    IF "nan" \in DOMAIN v \/ "nan" \in DOMAIN w THEN FALSE
    ELSE IF v.t = "cons" /\ w.t = "cons"
    THEN PyEq(v.head, w.head) /\ PyEq(v.tail, w.tail)
    ELSE IF v.t \in {"bool", "int", "dec"} /\ w.t \in {"bool", "int", "dec"}
    THEN Tenths(v) = Tenths(w)
    ELSE v = w

\* C17: for every value the reader constructs, display succeeds and
\* reading the displayed text returns a value equal to it
C17_RoundTrip ==
    /\ (last.k = "display" /\ garbage = << >>) => status # "error"
    /\ (last.k = "reread" /\ garbage = << >>)
        => status = "reread" /\ PyEq(reread, form)

\* C18: for every list or cons value and every trailing text, display
\* succeeds, reading the displayed text followed by the trailing text
\* returns the value, and exactly the trailing text is left in the port
C18_TrailingData ==
    form.t \in {"cons", "nil"} =>
        /\ last.k = "display" => status # "error"
        /\ last.k = "reread" => status = "reread" /\ PyEq(reread, form)
        /\ last.k = "read_fully" => rest = garbage

\* The port once n tokens are read from it
RECURSIVE AfterTokens(_, _)
AfterTokens(p, n) ==
    IF n = 0 THEN p ELSE AfterTokens(read_token(p).port, n - 1)

\* What follows a dot: one value, then a closing parenthesis, or
\* another dot and what follows a dot
RECURSIVE DottedChain(_)
DottedChainEnd(v, t) ==
    IF t.err # "" THEN ReadError(t.err, t.port)
    ELSE IF t.token = <<")">> THEN Read(v.value, t.port)
    ELSE IF t.token = <<".">>
    THEN ConsWith(Read(v.value, t.port), DottedChain(t.port))
    ELSE ReadError("SyntaxError", t.port)

DottedChainValue(v) ==
    IF v.err # "" THEN v
    ELSE IF v.value = EOF THEN ReadError("SyntaxError", v.port)
    ELSE DottedChainEnd(v, read_token(v.port))

DottedChain(p) == DottedChainValue(read(p))

\* The port of a dotted source after ( a . and the first value after it
DotPort == AfterTokens(string_to_input_port(source), 3)
TailValue == read(DotPort)
TokenAfterTail == read_token(TailValue.port)
TailValueRead == TailValue.err = "" /\ TailValue.value # EOF

\* C19: after ( a . the reader reads one value; at a closing parenthesis
\* that value is the tail; at another dot the value is one more element
\* and a tail is read again in the same way; any other token, and the end
\* of the input, is a SyntaxError
C19_DotThenCloseOrDot ==
    (source \in DottedSources /\ last.k = "read") =>
        /\ status = "error" <=> DottedChain(DotPort).err # ""
        /\ status = "error" => err = DottedChain(DotPort).err
        /\ status = "formed" =>
            /\ form = Cons(intern(<<"a">>), DottedChain(DotPort).value)
            /\ port = DottedChain(DotPort).port
        /\ (TailValueRead /\ TokenAfterTail.err = "") =>
            /\ (TokenAfterTail.token = <<")">>) =>
                (status = "formed" /\ form.tail = TailValue.value)
            /\ (TokenAfterTail.token = <<".">> /\ status = "formed") =>
                (form.tail.t = "cons" /\ form.tail.head = TailValue.value)
            /\ (TokenAfterTail.token \notin {<<")">>, <<".">>}) =>
                (status = "error" /\ err = "SyntaxError")

\* ( a . a . a ) is read as (a a . a)
C19_Witness ==
    /\ source = Join(<<<<"(">>, <<"a">>, <<".">>, <<"a">>, <<".">>, <<"a">>,
                       <<")">>>>)
    /\ last.k = "read"
    /\ status = "formed"
    /\ form = Cons(intern(<<"a">>), Cons(intern(<<"a">>), intern(<<"a">>)))

\* C19 as stated: after the value that follows the dot, every token but a
\* closing parenthesis, a second dot included, is a SyntaxError
C19_DotThenClose ==
    (/\ source \in DottedSources
     /\ last.k = "read"
     /\ TailValueRead
     /\ TokenAfterTail.err = ""
     /\ TokenAfterTail.token # <<")">>)
        => status = "error" /\ err = "SyntaxError"

\* The tokens read from a port until its end or a TokenError
RECURSIVE TokensOf(_)
TokensOf(p) ==
    IF read_token(p).err # "" \/ read_token(p).token = << >> THEN << >>
    ELSE <<read_token(p).token>> \o TokensOf(read_token(p).port)

\* Whether every token of a port can be read
RECURSIVE Tokenizes(_)
Tokenizes(p) ==
    IF read_token(p).err # "" THEN FALSE
    ELSE IF read_token(p).token = << >> THEN TRUE
    ELSE Tokenizes(read_token(p).port)

\* Opening minus closing parentheses among the first n tokens
RECURSIVE Depth(_, _)
Depth(toks, n) ==
    IF n = 0 THEN 0
    ELSE Depth(toks, n - 1)
            + (IF toks[n] = <<"(">> THEN 1
               ELSE IF toks[n] = <<")">> THEN -1 ELSE 0)

\* The list opened by the first token is open after each of the tokens
OpenAtEnd(toks) ==
    /\ toks # << >>
    /\ toks[1] = <<"(">>
    /\ \A n \in 1..Len(toks) : Depth(toks, n) > 0

\* Quote prefixes, then one atom or one list closed by the last token
Complete(toks) ==
    \E q \in 0..(Len(toks) - 1) :
        /\ \A i \in 1..q : toks[i] \in quoteTokens
        /\ toks[q + 1] \notin quoteTokens \cup {<<")">>}
        /\ IF toks[q + 1] = <<"(">>
           THEN /\ \A n \in (q + 1)..(Len(toks) - 1) : Depth(toks, n) > 0
                /\ Depth(toks, Len(toks)) = 0
           ELSE Len(toks) = q + 1

\* The tokens of the source, and those of them read has consumed
SourceTokensRead == TokensOf(string_to_input_port(source))
Consumed ==
    SubSeq(SourceTokensRead, 1,
           Len(SourceTokensRead)
               - Len(TokensOf(string_to_input_port(
                                  port.peek_buffer \o port.file))))

\* Whether the EOF sentinel is the value or a part of it
RECURSIVE HasEOF(_)
HasEOF(v) ==
    \/ v = EOF
    \/ v.t = "cons" /\ (HasEOF(v.head) \/ HasEOF(v.tail))

\* C20: read returns EOF exactly when the input holds no token; it raises
\* SyntaxError when the first token is a closing parenthesis, when the
\* input ends inside an open list and when it ends after quote prefixes
\* only; a value it returns is complete: the tokens consumed are quote
\* prefixes and one atom or one closed list, and EOF is no part of it
C20_EofOnlyBeforeForm ==
    last.k = "read" =>
        /\ status = "eof"
            <=> (/\ read_token(string_to_input_port(source)).err = ""
                 /\ read_token(string_to_input_port(source)).token = << >>)
        /\ status = "eof" => form = EOF
        /\ (SourceTokensRead # << >> /\ SourceTokensRead[1] = <<")">>)
            => (status = "error" /\ err = "SyntaxError")
        /\ (Tokenizes(string_to_input_port(source))
            /\ OpenAtEnd(SourceTokensRead))
            => (status = "error" /\ err = "SyntaxError")
        /\ (/\ Tokenizes(string_to_input_port(source))
            /\ SourceTokensRead # << >>
            /\ \A i \in 1..Len(SourceTokensRead) :
                    SourceTokensRead[i] \in quoteTokens)
            => (status = "error" /\ err = "SyntaxError")
        /\ status = "formed" => (~HasEOF(form) /\ Complete(Consumed))

\* The input ends after a quote prefix inside an open list
C20_Witness ==
    /\ source = Join(<<<<"(">>, <<"'">>>>)
    /\ last.k = "read"
    /\ status = "error"
    /\ err = "SyntaxError"

(* -------------------------------- ports --------------------------------- *)

\* The most characters of the text a port is opened on
MaxText == 3

PortChars == {"a", "b"}
PortTexts == UNION {SeqsOfLen(PortChars, n) : n \in 0..MaxText}

\* The numbers of characters asked for: strictly positive, up to more
\* than the text holds
Counts == 1..(MaxText + 1)

\* What a port still holds: what was peeked and not read, then the file
Unread(p) == p.peek_buffer \o p.file

\* port = string_to_input_port(input)
PortInit ==
    /\ NoLibrary
    /\ source \in PortTexts
    /\ port = string_to_input_port(source)
    /\ form = Nil
    /\ garbage = << >>
    /\ reread = Nil
    /\ rest = << >>
    /\ pairs = << >>
    /\ tokens = << >>
    /\ taken = << >>
    /\ peeked = << >>
    /\ expansion = Nil
    /\ status = "open"
    /\ err = ""
    /\ last = [k |-> "init"]
    /\ prog = Nil
    /\ cont = NoneK
    /\ env = 1
    /\ macros = 1
    /\ args = << >>
    /\ envs = SessionEnvs
    /\ menvs = SessionMacros
    /\ steps = 0
    /\ calls = << >>
    /\ entered = << >>
    /\ defs = EmptyDict

\* peek_port(port, n)
Peek ==
    /\ status = "open"
    /\ \E n \in Counts :
        /\ peeked' = peek_port(port, n).chars
        /\ port' = peek_port(port, n).port
        /\ last' = [k |-> "peek", n |-> n]
    /\ UNCHANGED <<evalVars, libraryVars, status, err, source, form, garbage,
                   reread, rest, pairs, tokens, taken, expansion>>

\* read_port(port, n)
ReadPort ==
    /\ status = "open"
    /\ \E n \in Counts :
        /\ taken' = taken \o read_port(port, n).chars
        /\ port' = read_port(port, n).port
        /\ last' = [k |-> "read", n |-> n, chars |-> read_port(port, n).chars]
    /\ UNCHANGED <<evalVars, libraryVars, status, err, source, form, garbage,
                   reread, rest, pairs, tokens, peeked, expansion>>

\* read_port_fully(port)
ReadPortFully ==
    /\ status = "open"
    /\ rest' = read_port_fully(port).chars
    /\ port' = read_port_fully(port).port
    /\ status' = "drained"
    /\ last' = [k |-> "read_fully"]
    /\ UNCHANGED <<evalVars, libraryVars, err, source, form, garbage, reread,
                   pairs, tokens, taken, peeked, expansion>>

\* A call on a port that read_port_fully was called on before: called is
\* what it returns and the port afterwards
AfterReadFully(name, called) ==
    /\ status \in {"drained", "reused"}
    /\ port' = called.port
    /\ status' = "reused"
    /\ last' = [k |-> name, chars |-> called.chars]
    /\ UNCHANGED <<evalVars, libraryVars, otherVars, err, source, form,
                   garbage, reread, rest>>

\* peek_port(port, n) after read_port_fully(port)
PeekAfter == \E n \in Counts : AfterReadFully("peek after", peek_port(port, n))

\* read_port(port, n) after read_port_fully(port)
ReadAfter == \E n \in Counts : AfterReadFully("read after", read_port(port, n))

\* read_port_fully(port) after read_port_fully(port)
ReadFullyAfter == AfterReadFully("read_fully after", read_port_fully(port))

PortNext ==
    Peek \/ ReadPort \/ ReadPortFully \/ PeekAfter \/ ReadAfter
        \/ ReadFullyAfter

PortSpec == PortInit /\ [][PortNext]_vars

\* C24: a peek does not advance the port, and a read of as many characters
\* made right after it returns the characters the peek returned
C24_PeekThenRead ==
    [][/\ last'.k = "peek" => Unread(port') = Unread(port)
       /\ (last.k = "peek" /\ last'.k = "read" /\ last'.n = last.n)
            => last'.chars = peeked]_vars

\* C25: the results of the read calls so far followed by what the port
\* still holds are the input, whatever peeks were made; after read_fully,
\* the results of the read calls followed by its result are the input
C25_PortConservation ==
    /\ status = "open" => taken \o Unread(port) = source
    /\ status = "drained" => taken \o rest = source

\* Reads and a peek were made, and read_fully still returned something
C25_Witness ==
    /\ status = "drained"
    /\ Len(taken) >= 2
    /\ peeked # << >>
    /\ rest # << >>

(* ------------------------------ tokenizing ----------------------------- *)

\* The most (intertoken, token) pairs of a text
MaxPairs == 2

\* Whitespace, and a comment closed by a newline
Intertokens == {<<" ">>, <<"\t", "\n">>, <<";", "a", " ", "\n">>}

\* Tokens that need an intertoken before them: the quotes and symbols
SpacedTokens ==
    {<<"'">>, <<grave>>, <<",">>, <<",", "@">>, <<"a">>, <<"@", "a">>}

\* Tokens that need none: strings and parentheses
UnspacedTokens ==
    {<<"\"", "a", ";", "(", "\"">>, <<"\"", "\\", "\"", "\\", "\\", "\"">>,
     <<"(">>, <<")">>}

spaced_tokens ==
    {<<i, t>> : i \in Intertokens, t \in SpacedTokens}
        \cup {<<i, t>> : i \in Intertokens \cup {<< >>}, t \in UnspacedTokens}

spaced_token_sequences ==
    UNION {SeqsOfLen(spaced_tokens, n) : n \in 0..MaxPairs}

\* A string delimiter and up to MaxText characters: literals that are
\* closed, that are not, and with good and bad escapes
StringTexts ==
    {<<"\"">> \o body :
        body \in UNION {SeqsOfLen({"\"", "\\", "a"}, n) : n \in 0..MaxText}}

\* What may follow the last token and holds no token: a comment that the
\* end of the input ends, and white space
Trailers == {<<";", "a">>, <<";">>, <<" ">>}

\* The pairs from the k-th on, coalesced into one text
RECURSIVE Coalesce(_, _)
Coalesce(ps, k) ==
    IF k > Len(ps) THEN << >>
    ELSE ps[k][1] \o ps[k][2] \o Coalesce(ps, k + 1)

\* The tokens of the pairs
TokensOfPairs(ps) == [k \in 1..Len(ps) |-> ps[k][2]]

\* A port over the coalesced pairs, with a string text after them or not
TokenInit ==
    /\ NoLibrary
    /\ pairs \in spaced_token_sequences
    /\ garbage \in StringTexts \cup Trailers \cup {<< >>}
    /\ garbage # << >> => Len(pairs) < MaxPairs
    /\ source = Coalesce(pairs, 1) \o garbage
    /\ port = string_to_input_port(source)
    /\ form = Nil
    /\ reread = Nil
    /\ rest = << >>
    /\ tokens = << >>
    /\ taken = << >>
    /\ peeked = << >>
    /\ expansion = Nil
    /\ status = "tokens"
    /\ err = ""
    /\ last = [k |-> "init"]
    /\ prog = Nil
    /\ cont = NoneK
    /\ env = 1
    /\ macros = 1
    /\ args = << >>
    /\ envs = SessionEnvs
    /\ menvs = SessionMacros
    /\ steps = 0
    /\ calls = << >>
    /\ entered = << >>
    /\ defs = EmptyDict

\* token = read_token(port)
ReadToken ==
    /\ status = "tokens"
    /\ port' = read_token(port).port
    /\ err' = read_token(port).err
    /\ status' = IF read_token(port).err # "" THEN "error"
                 ELSE IF read_token(port).token = << >> THEN "end"
                 ELSE "tokens"
    /\ tokens' = IF read_token(port).err = ""
                    /\ read_token(port).token # << >>
                 THEN Append(tokens, read_token(port).token)
                 ELSE tokens
    /\ last' = [k |-> "read_token"]
    /\ UNCHANGED <<evalVars, libraryVars, source, form, garbage, reread, rest,
                   pairs, taken, peeked, expansion>>

\* token = read_token(port), called again after a call reported the end of
\* the input
ReadTokenAtEnd ==
    /\ status \in {"end", "ended"}
    /\ port' = read_token(port).port
    /\ err' = read_token(port).err
    /\ status' = IF read_token(port).err # "" THEN "error" ELSE "ended"
    /\ last' = [k |-> "read_token at end", token |-> read_token(port).token]
    /\ UNCHANGED <<evalVars, libraryVars, source, form, garbage, reread, rest,
                   pairs, tokens, taken, peeked, expansion>>

TokenNext == ReadToken \/ ReadTokenAtEnd

TokenSpec == TokenInit /\ [][TokenNext]_vars

\* C21: on the coalesced pairs, the calls of read_token return the tokens
\* of the pairs in order, raise nothing, and report the end of the input
\* only after the last of them
C21_TokenizerTotal ==
    garbage = << >> =>
        /\ status # "error"
        /\ Len(tokens) <= Len(pairs)
        /\ tokens = SubSeq(TokensOfPairs(pairs), 1, Len(tokens))
        /\ status = "end" => tokens = TokensOfPairs(pairs)

\* A symbol, then a string with nothing between them, then the end
C21_Witness ==
    /\ garbage = << >>
    /\ status = "end"
    /\ Len(pairs) = 2
    /\ tokens = <<<<"a">>, <<"\"", "a", ";", "(", "\"">>>>
    /\ pairs[2][1] = << >>

\* C22: a call of read_token adds at most one token, and after the call
\* that returned the k-th token of the pairs the port holds exactly the
\* text of the pairs after the k-th, and what follows them
C22_OneTokenNoFurther ==
    [][/\ Len(tokens') <= Len(tokens) + 1
       /\ (status' = "tokens" /\ Len(tokens') <= Len(pairs)) =>
            /\ tokens'[Len(tokens')] = pairs[Len(tokens')][2]
            /\ Unread(port') = Coalesce(pairs, Len(tokens') + 1) \o garbage
       /\ status' = "end" => Unread(port') = << >>]_vars

\* The comma was returned, and the character looked at after it is still
\* in the port
C22_Witness ==
    /\ status = "tokens"
    /\ tokens = <<<<",">>>>
    /\ Len(pairs) = 2
    /\ port.peek_buffer # << >>
    /\ Unread(port) = Coalesce(pairs, 2)

\* Where the string literal that opens a text is closed, 0 when it is not:
\* the text ends first, or a backslash is followed by another character
\* than a string delimiter or a backslash
RECURSIVE StringClose(_, _)
StringClose(text, i) ==
    IF i > Len(text) THEN 0
    ELSE IF text[i] = "\\"
    THEN IF i + 1 <= Len(text) /\ text[i + 1] \in {"\"", "\\"}
         THEN StringClose(text, i + 2)
         ELSE 0
    ELSE IF text[i] = "\"" THEN i
    ELSE StringClose(text, i + 1)

\* C23: the call of read_token that meets a string literal returns the
\* literal verbatim, up to its closing delimiter, when it is closed and
\* its escapes are valid; otherwise it raises TokenError and returns no
\* token
C23_StringLiteral ==
    [][(garbage \in StringTexts /\ status = "tokens"
            /\ Len(tokens) = Len(pairs))
        => IF StringClose(garbage, 2) > 0
           THEN /\ status' = "tokens"
                /\ tokens' = Append(tokens, SubSeq(garbage, 1,
                                                   StringClose(garbage, 2)))
                /\ Unread(port')
                    = SubSeq(garbage, StringClose(garbage, 2) + 1,
                             Len(garbage))
           ELSE /\ status' = "error"
                /\ err' = "TokenError"
                /\ tokens' = tokens]_vars

\* A backslash before another character raised TokenError
C23_Witness ==
    /\ garbage = <<"\"", "\\", "a">>
    /\ status = "error"
    /\ err = "TokenError"
    /\ tokens = TokensOfPairs(pairs)

(* ------------------------------- expander ------------------------------ *)

\* What expand returns (a form) or raises
Expanded(f) == [err |-> "", form |-> f]
ExpandError(e) == [err |-> e, form |-> Nil]

\* cons(h, t) of two results, h computed first
ConsExpanded(h, t) ==
    IF h.err # "" THEN h
    ELSE IF t.err # "" THEN t
    ELSE Expanded(Cons(h.form, t.form))

\* uncons raises AttributeError on anything but a cons
uncons_fails(v) == ~cons_p(v)

\* expand_if: (if COND TRUE) => (if COND TRUE nil)
expand_if(f) ==
    IF uncons_fails(tail(f)) \/ uncons_fails(tail(tail(f)))
    THEN ExpandError("AttributeError")
    ELSE IF nil_p(tail(tail(tail(f))))
    THEN Expanded(list(<<head(f), head(tail(f)), head(tail(tail(f))), Nil>>))
    ELSE IF uncons_fails(tail(tail(tail(f))))
    THEN ExpandError("AttributeError")
    ELSE Expanded(list(<<head(f), head(tail(f)), head(tail(tail(f))),
                         head(tail(tail(tail(f))))>>))

\* expand_lambda_define: (define (NAME . FORMALS) . BODY)
\*   => (define NAME (lambda FORMALS . BODY))
expand_lambda_define(head_, symb, body) ==
    Expanded(list(<<head_, head(symb),
                    Cons(S("lambda"), Cons(tail(symb), body))>>))

\* expand_define, for define and define-macro
expand_define(f) ==
    IF uncons_fails(tail(f)) THEN ExpandError("AttributeError")
    ELSE IF cons_p(head(tail(f)))
    THEN expand_lambda_define(head(f), head(tail(f)), tail(tail(f)))
    ELSE IF uncons_fails(tail(tail(f))) THEN ExpandError("AttributeError")
    ELSE Expanded(list(<<head(f), head(tail(f)), head(tail(tail(f)))>>))

\* expand_lambda: two body forms or more are wrapped in (begin ...)
expand_lambda(f) ==
    IF uncons_fails(tail(f)) THEN ExpandError("AttributeError")
    ELSE IF cons_p(tail(tail(f))) /\ ~nil_p(tail(tail(tail(f))))
    THEN Expanded(Cons(head(f),
                       Cons(head(tail(f)),
                            list(<<Cons(S("begin"), tail(tail(f)))>>))))
    ELSE Expanded(Cons(head(f), Cons(head(tail(f)), tail(tail(f)))))

RECURSIVE expand_quasiquoted(_)

\* list(symbols[name], first, rest) of a form and a result
ListExpanded(name, first, rest_) ==
    IF rest_.err # "" THEN rest_
    ELSE Expanded(list(<<S(name), first, rest_.form>>))

\* list(symbols['cons'], first, rest) of two results, first computed first
ConsQuasiquoted(first, rest_) ==
    IF first.err # "" THEN first
    ELSE ListExpanded("cons", first.form, rest_)

\* An expand_quasiquoted that leaves atoms unquoted
expand_quasiquoted_bare(f) ==
    IF nil_p(f) \/ ~cons_p(f) THEN Expanded(f)
    ELSE IF head(f) = S("unquote")
    THEN IF uncons_fails(tail(f)) THEN ExpandError("AttributeError")
         ELSE Expanded(head(tail(f)))
    ELSE IF cons_p(head(f)) /\ head(head(f)) = S("unquote-splicing")
    THEN IF uncons_fails(tail(head(f))) THEN ExpandError("AttributeError")
         ELSE ListExpanded("append", head(tail(head(f))),
                           expand_quasiquoted(tail(f)))
    ELSE ConsQuasiquoted(expand_quasiquoted(head(f)),
                         expand_quasiquoted(tail(f)))

expand_quasiquoted(f) ==
    IF nil_p(f) THEN Expanded(f)
    ELSE IF ~cons_p(f) THEN Expanded(list(<<S("quote"), f>>))
    ELSE IF head(f) = S("unquote")
    THEN IF uncons_fails(tail(f)) THEN ExpandError("AttributeError")
         ELSE Expanded(head(tail(f)))
    ELSE IF cons_p(head(f)) /\ head(head(f)) = S("unquote-splicing")
    THEN IF uncons_fails(tail(head(f))) THEN ExpandError("AttributeError")
         ELSE ListExpanded("append", head(tail(head(f))),
                           expand_quasiquoted(tail(f)))
    ELSE ConsQuasiquoted(expand_quasiquoted(head(f)),
                         expand_quasiquoted(tail(f)))

\* expand_quasiquote: the first operand, expanded as a template
expand_quasiquote(f) ==
    IF uncons_fails(tail(f)) THEN ExpandError("AttributeError")
    ELSE expand_quasiquoted(head(tail(f)))

\* head(form) in macros, for the session's macro environment
macro_p(f, MH) == symbol_p(head(f)) /\ head(f) \in DOMAIN MH[1].b

RECURSIVE expand(_, _, _)
RECURSIVE expand_subforms(_, _, _)

\* expansion, = macro_body(*args); return expand(expansion, ...)
expand_expansion(r, H, MH) ==
    IF r.err # "" THEN ExpandError(r.err)
    ELSE IF Len(r.args) # 1 THEN ExpandError("ValueError")
    ELSE expand(r.args[1], H, MH)

\* expand_macro: the transformer is called with the unevaluated operands
expand_macro(f, H, MH) ==
    IF ~list_p(tail(f)) THEN ExpandError("AttributeError")
    ELSE expand_expansion(call(MH[1].b[head(f)], flatten(tail(f)), H, MH),
                          H, MH)

\* The branch of expand the head of the form selects
expand_form(f, H, MH) ==
    IF head(f) = S("if") THEN expand_if(f)
    ELSE IF head(f) = S("define") THEN expand_define(f)
    ELSE IF head(f) = S("define-macro") THEN expand_define(f)
    ELSE IF head(f) = S("lambda") THEN expand_lambda(f)
    ELSE IF head(f) = S("quasiquote") THEN expand_quasiquote(f)
    ELSE IF macro_p(f, MH) THEN expand_macro(f, H, MH)
    ELSE Expanded(f)

\* form = expand_subforms(form, symbols, macros), when nothing was raised
subforms_of(r, H, MH) ==
    IF r.err # "" THEN r ELSE expand_subforms(r.form, H, MH)

expand(f, H, MH) ==
    IF nil_p(f) \/ ~cons_p(f) THEN Expanded(f)
    ELSE IF head(f) = S("quote") THEN Expanded(f)
    ELSE subforms_of(expand_form(f, H, MH), H, MH)

expand_subforms(l, H, MH) ==
    IF nil_p(l) THEN Expanded(Nil)
    ELSE IF ~cons_p(l) THEN Expanded(l)
    ELSE ConsExpanded(expand(head(l), H, MH),
                      expand_subforms(tail(l), H, MH))

(* ------------------------------ expanding ------------------------------ *)

\* The operands a form has at most, taken from Operands
MaxOperands == 2

\* The transformers of four macros, as define-macro binds them:
\*   (define-macro (m0) 1)
\*   (define-macro (m1 x) (list (quote if) x x))
\*   (define-macro (m2 x) (list (quote m1) x))
\*   (define-macro (m3 x) x)
m0 == Procedure(integer(1), Nil, 1, 1)
m1 == Procedure(L(<<S("list"), Quote(S("if")), S("x"), S("x")>>),
                L(<<S("x")>>), 1, 1)
m2 == Procedure(L(<<S("list"), Quote(S("m1")), S("x")>>), L(<<S("x")>>), 1, 1)
m3 == Procedure(S("x"), L(<<S("x")>>), 1, 1)

\* BaseSession.macros once the four macros are bound
ExpanderMacros ==
    <<Environment(<< <<S("m0"), m0>>, <<S("m1"), m1>>, <<S("m2"), m2>>,
                     <<S("m3"), m3>> >>, 0)>>

\* The symbols a form starts with
Heads ==
    {S("if"), S("define"), S("define-macro"), S("lambda"), S("quasiquote"),
     S("unquote"), S("unquote-splicing"), S("quote"), S("m0"), S("m1"),
     S("m2"), S("a")}

ExpAtoms == {S("a"), Nil, integer(1)}

Unquote(f) == L(<<S("unquote"), f>>)

\* Forms that stand as operands of other forms
Inner ==
    {L(<<S("if"), S("a"), S("a")>>),
     L(<<S("lambda"), L(<<S("a")>>)>>),
     L(<<S("lambda"), L(<<S("a")>>), S("a"), S("a")>>),
     L(<<S("quasiquote"), S("a")>>),
     L(<<S("m1"), S("a")>>),
     L(<<S("m0")>>),
     Quote(L(<<S("m1"), S("a")>>)),
     L(<<S("a")>>),
     Cons(S("a"), S("a")),
     Unquote(S("a")),
     L(<<S("unquote-splicing"), S("a")>>),
     Unquote(L(<<S("if"), S("a"), S("a")>>)),
     Unquote(L(<<S("m1"), S("a")>>)),
     Unquote(L(<<S("quasiquote"), S("a")>>)),
     Unquote(L(<<S("lambda"), L(<<S("a")>>)>>))}

Operands == ExpAtoms \cup Inner

\* The elements of quasiquote templates; unquote as an element makes the
\* dotted (a . ,b), which the reader gives as (a unquote b)
TemplateElems ==
    {S("a"), S("c"), Nil, S("unquote"), Unquote(S("b")),
     L(<<S("unquote-splicing"), S("b")>>), L(<<S("unquote-splicing")>>),
     L(<<S("a")>>)}

\* The sequences of at most n elements of a set
UpTo(set, n) == UNION {[1..k -> set] : k \in 0..n}

\* cons(e1, cons(e2, ... end))
RECURSIVE Dotted(_, _)
Dotted(elems, end) ==
    IF elems = << >> THEN end
    ELSE Cons(elems[1], Dotted(Tail(elems), end))

\* (HEAD operand ...), properly ended or ended by the symbol a
OperandForms ==
    {Dotted(<<h>> \o ops, Nil) : h \in Heads, ops \in UpTo(Operands, MaxOperands)}
        \cup {Dotted(<<h>> \o ops, S("a")) :
                  h \in Heads, ops \in UpTo(ExpAtoms, MaxOperands)}

\* (HEAD atom ...) with up to two operands more
AtomForms ==
    {L(<<h>> \o ops) :
         h \in Heads, ops \in UpTo({S("a"), integer(1)}, MaxOperands + 2)}

\* (quasiquote TEMPLATE)
Templates ==
    {Dotted(elems, end) :
         elems \in UpTo(TemplateElems, MaxOperands + 1), end \in {Nil, S("b")}}

TemplateForms == {L(<<S("quasiquote"), tm>>) : tm \in Templates}

\* The formals of the shorthand define: lists of symbols and a rest symbol,
\* some named like a macro or a special form
DefineFormals ==
    {Nil, S("a"), L(<<S("a")>>), L(<<S("a"), S("b")>>), L(<<S("m0")>>),
     L(<<S("m1"), S("a")>>), L(<<S("if"), S("a")>>),
     L(<<S("if"), S("a"), S("b")>>)}

\* (define (a . FORMALS) body ...) and the same with define-macro
DefineForms ==
    {Dotted(<<h, Cons(S("a"), fs)>> \o body, Nil) :
         h \in {S("define"), S("define-macro")}, fs \in DefineFormals,
         body \in UpTo({S("a"), integer(1), L(<<S("if"), S("a"), S("a")>>),
                        L(<<S("m1"), S("a")>>)}, MaxOperands)}

\* ((m3 HEAD) operand ...): the head of the form is a use of the macro that
\* returns its operand
HeadForms ==
    {L(<<L(<<S("m3"), h>>)>> \o ops) :
         h \in {S("if"), S("lambda"), S("quasiquote"), S("m1"), S("a")},
         ops \in UpTo({S("a"), L(<<S("a")>>)}, MaxOperands)}

Forms ==
    OperandForms \cup AtomForms \cup TemplateForms \cup DefineForms
        \cup HeadForms

\* A session with the four macros, and a form given to BaseSession.expand
ExpandInit ==
    /\ NoLibrary
    /\ form \in Forms
    /\ source = << >>
    /\ port = string_to_input_port(<< >>)
    /\ garbage = << >>
    /\ reread = Nil
    /\ rest = << >>
    /\ pairs = << >>
    /\ tokens = << >>
    /\ taken = << >>
    /\ peeked = << >>
    /\ expansion = Nil
    /\ status = "form"
    /\ err = ""
    /\ last = [k |-> "init"]
    /\ prog = Nil
    /\ cont = NoneK
    /\ env = 1
    /\ macros = 1
    /\ args = << >>
    /\ envs = SessionEnvs
    /\ menvs = ExpanderMacros
    /\ steps = 0
    /\ calls = << >>
    /\ entered = << >>
    /\ defs = EmptyDict

\* BaseSession.expand(form)
Expand ==
    /\ status = "form"
    /\ LET r == expand(form, envs, menvs)
       IN  /\ status' = IF r.err = "" THEN "expanded" ELSE "error"
           /\ err' = r.err
           /\ expansion' = r.form
    /\ last' = [k |-> "expand"]
    /\ UNCHANGED <<evalVars, libraryVars, source, port, form, garbage, reread,
                   rest,
                   pairs, tokens, taken, peeked>>

\* BaseSession.eval after its call of expand:
\*     cps = evaluator.eval(form, self.symbols, None)
Compile ==
    /\ status = "expanded"
    /\ LET cps == eval(expansion, NoneK)
       IN  /\ status' = IF Raised(cps) THEN "error" ELSE "compiled"
           /\ err' = IF Raised(cps) THEN cps.err ELSE ""
           /\ cont' = IF Raised(cps) THEN cont ELSE cps
    /\ last' = [k |-> "compile"]
    /\ UNCHANGED <<prog, env, macros, args, envs, menvs, steps, calls,
                   entered, defs, libraryVars, source, port, form, garbage,
                   reread, rest, pairs, tokens, taken, peeked, expansion>>

\* BaseSession.expand of what BaseSession.expand returned
ExpandAgain ==
    /\ status = "expanded"
    /\ LET r == expand(expansion, envs, menvs)
       IN  /\ status' = IF r.err = "" THEN "expanded again" ELSE "error"
           /\ err' = r.err
           /\ again' = r.form
    /\ last' = [k |-> "expand again"]
    /\ UNCHANGED <<evalVars, otherVars, given, result, table, made, looked,
                   source, port, form, garbage, reread, rest>>

ExpandNext == Expand \/ Compile \/ ExpandAgain

ExpandSpec == ExpandInit /\ [][ExpandNext]_vars

(* ------------------------- claims on the expander ---------------------- *)

\* f is (HEAD operand1 ... operandN), a proper list
Operated(f, n) == list_p(f) /\ Len(flatten(f)) = n + 1

\* No quasiquote, unquote or unquote-splicing form outside quoted data, and
\* three operands to every if
RECURSIVE Erased(_)
RECURSIVE EachErased(_)
\* The forms of a list, proper or not, each satisfy Erased
EachErased(l) == ~cons_p(l) \/ (Erased(head(l)) /\ EachErased(tail(l)))

Erased(f) ==
    \/ ~cons_p(f)
    \/ head(f) = S("quote")
    \/ /\ head(f) \notin {S("quasiquote"), S("unquote"), S("unquote-splicing")}
       /\ head(f) = S("if") => Operated(f, 3)
       /\ EachErased(f)

\* C26: whatever form is expanded, the expansion holds no quasiquote, unquote
\* or unquote-splicing form outside quoted data, and every if in it has
\* exactly three operands.
C26_Erased == status = "expanded" => Erased(expansion)

\* Every lambda form outside quoted data has formals and one body
RECURSIVE OneBody(_)
RECURSIVE EachOneBody(_)
\* The forms of a list, proper or not, each satisfy OneBody
EachOneBody(l) == ~cons_p(l) \/ (OneBody(head(l)) /\ EachOneBody(tail(l)))

OneBody(f) ==
    \/ ~cons_p(f)
    \/ head(f) = S("quote")
    \/ /\ head(f) = S("lambda") => Operated(f, 2)
       /\ EachOneBody(f)

\* C27: after expansion every lambda form has exactly one body form; with no
\* body form in the input the body is (begin).
C27_OneBody ==
    /\ status = "expanded" => OneBody(expansion)
    /\ (status = "expanded" /\ head(form) = S("lambda") /\ Operated(form, 1))
         => expansion = L(<<S("lambda"), head(tail(form)), L(<<S("begin")>>)>>)

\* Every unquote of a template has its operand
RECURSIVE TemplateOk(_)
TemplateOk(tm) ==
    IF ~cons_p(tm) THEN TRUE
    ELSE IF head(tm) = S("unquote") THEN cons_p(tail(tm))
    ELSE IF cons_p(head(tm)) /\ head(head(tm)) = S("unquote-splicing")
    THEN cons_p(tail(head(tm))) /\ TemplateOk(tail(tm))
    ELSE TemplateOk(head(tm)) /\ TemplateOk(tail(tm))

\* The expansion of a template, case by case on its structure
RECURSIVE Quasi(_)
Quasi(tm) ==
    CASE nil_p(tm) -> Nil
      [] ~nil_p(tm) /\ ~cons_p(tm) -> L(<<S("quote"), tm>>)
      [] cons_p(tm) /\ head(tm) = S("unquote") -> head(tail(tm))
      [] cons_p(tm) /\ head(tm) # S("unquote") /\ cons_p(head(tm))
            /\ head(head(tm)) = S("unquote-splicing") ->
          L(<<S("append"), head(tail(head(tm))), Quasi(tail(tm))>>)
      [] OTHER -> L(<<S("cons"), Quasi(head(tm)), Quasi(tail(tm))>>)

\* form is (quasiquote TEMPLATE ...) with every unquote complete
Quasiquoting == 
    /\ cons_p(form) /\ head(form) = S("quasiquote") /\ cons_p(tail(form))
    /\ TemplateOk(head(tail(form)))

\* `(a ,b c)
ABC == L(<<S("quasiquote"), L(<<S("a"), Unquote(S("b")), S("c")>>)>>)

\* (cons 'a (cons b (cons 'c ())))
ABCExpansion ==
    L(<<S("cons"), Quote(S("a")),
        L(<<S("cons"), S("b"),
            L(<<S("cons"), Quote(S("c")), Nil>>)>>)>>)

\* C28: a template expands by structure: a non-nil atom is quoted, Nil stays
\* Nil, (unquote e) is e, a leading (unquote-splicing e) makes (append e rest),
\* any other pair makes (cons head tail); what expand returns is that form
\* with its subforms expanded, and for `(a ,b c) it is
\* (cons 'a (cons b (cons 'c ()))).
C28_ByStructure ==
    /\ Quasiquoting =>
         expand_quasiquoted(head(tail(form))) = Expanded(Quasi(head(tail(form))))
    /\ (Quasiquoting /\ last.k = "expand") =>
         /\ err = expand_subforms(Quasi(head(tail(form))), envs, menvs).err
         /\ expansion = expand_subforms(Quasi(head(tail(form))), envs, menvs).form
    /\ (form = ABC /\ last.k = "expand") =>
         status = "expanded" /\ expansion = ABCExpansion

C28_Witness == form = ABC /\ status = "expanded" /\ expansion = ABCExpansion

\* No form outside quoted data starts with a symbol bound as a macro
RECURSIVE NoMacroCall(_)
RECURSIVE EachNoMacroCall(_)
\* The forms of a list, proper or not, each satisfy NoMacroCall
EachNoMacroCall(l) == ~cons_p(l) \/ (NoMacroCall(head(l)) /\ EachNoMacroCall(tail(l)))

NoMacroCall(f) ==
    \/ ~cons_p(f)
    \/ head(f) = S("quote")
    \/ /\ ~macro_p(f, menvs)
       /\ EachNoMacroCall(f)

\* C29: in the expansion no form outside quoted data has as head a symbol
\* bound in the macro environment.
C29_Fixpoint == status = "expanded" => NoMacroCall(expansion)

\* The conses of the operand list of a form
RECURSIVE Conses(_)
Conses(l) == IF cons_p(l) THEN 1 + Conses(tail(l)) ELSE 0

\* A special form with too few operands, or an if that is no list
Undestructurable(f) ==
    /\ cons_p(f)
    /\ \/ head(f) = S("if") /\ (Conses(tail(f)) < 2 \/ ~list_p(f))
       \/ /\ head(f) \in {S("define"), S("define-macro")}
          /\ \/ Conses(tail(f)) < 1
             \/ Conses(tail(f)) < 2 /\ ~cons_p(head(tail(f)))
       \/ head(f) = S("lambda") /\ Conses(tail(f)) < 1
       \/ head(f) = S("quasiquote") /\ Conses(tail(f)) < 1

\* C30: when the special form given to expand cannot be destructured, expand
\* fails, with ExpansionError and with no other kind of error.
C30_ExpansionError ==
    (Undestructurable(form) /\ last.k = "expand")
        => status = "error" /\ err = "ExpansionError"

\* expansion is (define s e) or (define-macro s e) and s is no symbol
DefinesNoSymbol ==
    /\ cons_p(expansion)
    /\ head(expansion) \in {S("define"), S("define-macro")}
    /\ Operated(expansion, 2)
    /\ ~symbol_p(head(tail(expansion)))

\* C31: compiling (define s e) or (define-macro s e) where s is not a symbol
\* fails with EvalError.
C31_EvalError ==
    (last.k = "compile" /\ DefinesNoSymbol)
        => status = "error" /\ err = "EvalError"

(* --------------------------- host functions ---------------------------- *)

\* The arguments a host function is given at most
MaxGiven == 2

\* What a host function returned (An.fn wraps it in a one-tuple) or raised
Value(v) == [err |-> "", value |-> v]
Failure(e) == [err |-> e, value |-> Nil]

\* boolean_p: value is true or value is false
boolean_p(v) == v.t = "bool"

\* integer_p: isinstance(value, int); Python's bool is a subclass of int
integer_p(v) == v.t = "int" \/ v.t = "bool"

\* decimal_p: isinstance(value, Decimal)
decimal_p(v) == v.t = "dec"

\* string_p: not symbol_p(value) and isinstance(value, str)
string_p(v) == ~symbol_p(v) /\ v.t = "str"

\* vector_p: isinstance(value, b.list)
vector_p(v) == v.t = "vec"

\* The type predicates a value satisfies, by their Actinide names
kinds(v) ==
    {n \in {"nil?", "boolean?", "integer?", "decimal?", "string?", "symbol?",
            "cons?", "vector?", "procedure?"} :
        CASE n = "nil?" -> nil_p(v)
          [] n = "boolean?" -> boolean_p(v)
          [] n = "integer?" -> integer_p(v)
          [] n = "decimal?" -> decimal_p(v)
          [] n = "string?" -> string_p(v)
          [] n = "symbol?" -> symbol_p(v)
          [] n = "cons?" -> cons_p(v)
          [] n = "vector?" -> vector_p(v)
          [] n = "procedure?" -> procedure_p(v)}

\* and_: all(vals), a Python bool
and_(values) == Value(boolean(\A i \in DOMAIN values : PyTruthy(values[i])))

\* or_: any(vals), a Python bool
or_(values) == Value(boolean(\E i \in DOMAIN values : PyTruthy(values[i])))

\* types.flatten of any object: head of what is neither nil nor a cons
\* raises AttributeError
RECURSIVE flatten_object(_)
flatten_object(v) ==
    IF nil_p(v) THEN Value(vector(<< >>))
    ELSE IF ~cons_p(v) THEN Failure("AttributeError")
    ELSE LET more == flatten_object(tail(v))
         IN  IF more.err # "" THEN more
             ELSE Value(vector(<<head(v)>> \o more.value.elems))

\* list_to_vector: return flatten(list), where list is the function list of
\* types.py and not the argument
list_to_vector(value) == flatten_object(Prim("list"))

\* vector_to_list: list(*value)
vector_to_list(value) == Value(list(value.elems))

LibraryValues ==
    {Nil, true, false, integer(0), integer(1), decimal(5), string(""),
     string("a"), S("a"), Cons(integer(1), integer(0)),
     L(<<integer(1), S("a")>>), vector(<< >>), vector(<<integer(1), Nil>>),
     m0, Prim("list")}

\* A host function is about to be called with some values
LibraryInit ==
    /\ given \in UpTo(LibraryValues, MaxGiven)
    /\ again = Nil
    /\ result = Nil
    /\ table = EmptyDict
    /\ made = << >>
    /\ looked = << >>
    /\ source = << >>
    /\ port = string_to_input_port(<< >>)
    /\ form = Nil
    /\ garbage = << >>
    /\ reread = Nil
    /\ rest = << >>
    /\ pairs = << >>
    /\ tokens = << >>
    /\ taken = << >>
    /\ peeked = << >>
    /\ expansion = Nil
    /\ status = "given"
    /\ err = ""
    /\ last = [k |-> "init"]
    /\ prog = Nil
    /\ cont = NoneK
    /\ env = 1
    /\ macros = 1
    /\ args = << >>
    /\ envs = SessionEnvs
    /\ menvs = SessionMacros
    /\ steps = 0
    /\ calls = << >>
    /\ entered = << >>
    /\ defs = EmptyDict

\* The call fn(*given) of a host function, r what it returns or raises
Called(name, r) ==
    /\ result' = r
    /\ status' = IF r.err = "" THEN "returned" ELSE "error"
    /\ err' = r.err
    /\ last' = [k |-> name]
    /\ UNCHANGED <<evalVars, otherVars, again, given, table, made, looked,
                   source, port, form, garbage, reread, rest>>

\* Each type predicate applied to one value
Kinds ==
    status = "given" /\ Len(given) = 1
        /\ Called("kinds", Value(kinds(given[1])))

And == status = "given" /\ Called("and", and_(given))

Or == status = "given" /\ Called("or", or_(given))

ListToVector ==
    status = "given" /\ Len(given) = 1
        /\ Called("list_to_vector", list_to_vector(given[1]))

VectorToList ==
    status = "given" /\ Len(given) = 1 /\ vector_p(given[1])
        /\ Called("vector_to_list", vector_to_list(given[1]))

\* list_to_vector applied to what vector_to_list returned
VectorBack ==
    status = "returned" /\ last.k = "vector_to_list"
        /\ Called("vector_back", list_to_vector(result.value))

LibraryNext == Kinds \/ And \/ Or \/ ListToVector \/ VectorToList \/ VectorBack

LibrarySpec == LibraryInit /\ [][LibraryNext]_vars

\* C32: every value satisfies exactly one of the nine type predicates; #t and
\* #f do not satisfy integer?.
C32_KindsDisjoint ==
    last.k = "kinds" =>
        /\ Cardinality(result.value) = 1
        /\ boolean_p(given[1]) => "integer?" \notin result.value

\* The first value of a sequence that is truthy (or falsy), else the last
RECURSIVE FirstOr(_, _)
FirstOr(values, truthy) ==
    IF Len(values) = 1 \/ PyTruthy(values[1]) = truthy THEN values[1]
    ELSE FirstOr(Tail(values), truthy)

\* C35: and of no arguments is #t, otherwise the first falsy argument or the
\* last one; or of no arguments is #f, otherwise the first truthy argument or
\* the last one.
C35_AndOrValues ==
    /\ last.k = "and" =>
         result = Value(IF given = << >> THEN true ELSE FirstOr(given, FALSE))
    /\ last.k = "or" =>
         result = Value(IF given = << >> THEN false ELSE FirstOr(given, TRUE))

\* C39: list->vector of a proper list returns the vector of its elements in
\* order, and list->vector of the list of a vector returns a vector of the
\* same elements.
C39_ListVectorRoundTrip ==
    /\ (last.k = "list_to_vector" /\ list_p(given[1])) =>
         result = Value(vector(flatten(given[1])))
    /\ last.k = "vector_back" => result = Value(given[1])

(* ---------------------------- symbol table ----------------------------- *)

\* The lookups made on one symbol table at most
MaxLookups == 4

\* The texts looked up
SymbolTexts == {"a", "b", "c"}

\* A Symbol object is the index of its text in made: two Symbols are equal
\* when they are the same object (Symbol defines __hash__ and no __eq__)
\* What a lookup returns, and the table and the objects after it
Found(tb, objs, symb) == [table |-> tb, made |-> objs, symbol |-> symb]

\* A __missing__ that returns a new Symbol and does not store it
missing_unstored(tb, objs, key) == Found(tb, Append(objs, key), Len(objs) + 1)

\* SymbolTable.__missing__: self[key] = result = Symbol(key); return result
missing(tb, objs, key) ==
    Found([x \in DOMAIN tb \cup {key} |->
               IF x = key THEN Len(objs) + 1 ELSE tb[x]],
          Append(objs, key), Len(objs) + 1)

\* symbol_table[string]: dict.__getitem__, which calls __missing__ for an
\* absent key
symbol_of(tb, objs, key) ==
    IF key \in DOMAIN tb THEN Found(tb, objs, tb[key])
    ELSE missing(tb, objs, key)

\* A new SymbolTable
SymbolInit ==
    /\ table = EmptyDict
    /\ made = << >>
    /\ looked = << >>
    /\ again = Nil
    /\ given = << >>
    /\ result = Nil
    /\ source = << >>
    /\ port = string_to_input_port(<< >>)
    /\ form = Nil
    /\ garbage = << >>
    /\ reread = Nil
    /\ rest = << >>
    /\ pairs = << >>
    /\ tokens = << >>
    /\ taken = << >>
    /\ peeked = << >>
    /\ expansion = Nil
    /\ status = "table"
    /\ err = ""
    /\ last = [k |-> "init"]
    /\ prog = Nil
    /\ cont = NoneK
    /\ env = 1
    /\ macros = 1
    /\ args = << >>
    /\ envs = SessionEnvs
    /\ menvs = SessionMacros
    /\ steps = 0
    /\ calls = << >>
    /\ entered = << >>
    /\ defs = EmptyDict

\* symbol(string, symbol_table)
LookupSymbol ==
    /\ Len(looked) < MaxLookups
    /\ \E key \in SymbolTexts :
         LET r == symbol_of(table, made, key)
         IN  /\ table' = r.table
             /\ made' = r.made
             /\ looked' = Append(looked, [text |-> key, symbol |-> r.symbol])
             /\ last' = [k |-> "symbol", text |-> key]
    /\ UNCHANGED <<evalVars, otherVars, status, err, again, given, result,
                   source, port, form, garbage, reread, rest>>

SymbolNext == LookupSymbol

SymbolSpec == SymbolInit /\ [][SymbolNext]_vars

\* Every lookup returned a Symbol of its text, and two lookups returned the
\* same Symbol exactly when their texts are equal
Interned ==
    /\ \A i \in DOMAIN looked :
         /\ looked[i].symbol \in DOMAIN made
         /\ made[looked[i].symbol] = looked[i].text
    /\ \A i, j \in DOMAIN looked :
         (looked[i].symbol = looked[j].symbol)
             <=> (looked[i].text = looked[j].text)

\* C33: every lookup on a symbol table succeeds, two lookups return the
\* identical Symbol exactly when their texts are equal, and a lookup that
\* inserts a symbol leaves the symbol stored for every other text as it was.
C33_Interning ==
    [][/\ Len(looked') = Len(looked) + 1
       /\ Interned'
       /\ \A key \in DOMAIN table :
            key \in DOMAIN table' /\ table'[key] = table[key]]_vars

C33_Witness ==
    /\ Len(looked) = 3
    /\ looked[1].text = looked[3].text /\ looked[1].symbol = looked[3].symbol
    /\ looked[2].text # looked[1].text /\ looked[2].symbol # looked[1].symbol

\* form is (define (f . F) body ...) or the same with define-macro, f a symbol
LambdaDefine ==
    /\ cons_p(form) /\ head(form) \in {S("define"), S("define-macro")}
    /\ cons_p(tail(form)) /\ cons_p(head(tail(form)))
    /\ symbol_p(head(head(tail(form))))

\* (define f (lambda F body ...)) for the form (define (f . F) body ...)
Longhand(f) ==
    L(<<head(f), head(head(tail(f))),
        Cons(S("lambda"), Cons(tail(head(tail(f))), tail(tail(f))))>>)

\* Expanding the shorthand gives what expanding the longhand gives
SameAsLonghand ==
    LambdaDefine =>
        expand(form, envs, menvs) = expand(Longhand(form), envs, menvs)

\* C34: expanding (define (f . F) body ...) gives what expanding
\* (define f (lambda F body ...)) gives, and the expansion defines f as a
\* lambda of the formals F, both unchanged.
C34_LambdaDefine ==
    /\ SameAsLonghand
    /\ (LambdaDefine /\ status = "expanded") =>
         /\ head(tail(expansion)) = head(head(tail(form)))
         /\ head(tail(head(tail(tail(expansion))))) = tail(head(tail(form)))

\* C38: expand is idempotent: expanding the expansion of a form succeeds and
\* returns the expansion.
C38_Idempotent ==
    last.k = "expand again" => status = "expanded again" /\ again = expansion

\* C37: after read_fully on a port, every later peek, read and read_fully on
\* it returns the empty string.
C37_NothingAfterReadFully == status = "reused" => last.chars = << >>

\* The states the loop of read_token goes through from state st, each with
\* the number of characters the port holds when the state is entered; the
\* last one says how the loop was left, or that n iterations did not end it
RECURSIVE token_steps(_, _, _)
token_steps(st, p, n) ==
    IF st.s = "eof"
    THEN <<[s |-> st.s, left |-> Len(Unread(p)), out |-> "end"]>>
    ELSE IF n = 0
    THEN <<[s |-> st.s, left |-> Len(Unread(p)), out |-> "running"]>>
    ELSE IF tokenize(st, p).err # ""
    THEN <<[s |-> st.s, left |-> Len(Unread(p)), out |-> "error"]>>
    ELSE IF tokenize(st, p).token # << >>
    THEN <<[s |-> st.s, left |-> Len(Unread(p)), out |-> "token"]>>
    ELSE <<[s |-> st.s, left |-> Len(Unread(p)), out |-> ""]>>
             \o token_steps(tokenize(st, p).next, tokenize(st, p).port, n - 1)

\* The iterations a call of read_token is followed for: two for each
\* character the port holds, and four
StepLimit(p) == 2 * Len(Unread(p)) + 4

\* The loop was left, and whenever it came back to a state it had been in,
\* the port held fewer characters than before
Progresses(trace) ==
    /\ trace[Len(trace)].out \in {"end", "error", "token"}
    /\ \A i, j \in DOMAIN trace :
         (i < j /\ trace[i].s = trace[j].s) => trace[j].left < trace[i].left

\* C40: a call of read_token ends, with a token, the end of the input or
\* TokenError, and no tokenizer state comes back without a character
\* consumed in between; once a call reported the end of the input every
\* later call reports it too; no token returned is the empty string.
C40_ReadTokenTerminates ==
    /\ status \in {"tokens", "end", "ended"} =>
         Progresses(token_steps(TokState("any", << >>), port, StepLimit(port)))
    /\ status = "error" => err = "TokenError"
    /\ status = "ended" => last.token = << >>
    /\ \A i \in DOMAIN tokens : tokens[i] # << >>

\* A comment and white space were skipped to the end of the input, and the
\* call after the end reported the end again
C40_Witness ==
    /\ status = "ended"
    /\ garbage = <<";", "a">>
    /\ pairs # << >> /\ pairs[1][1] = <<" ">>
    /\ Len(tokens) = Len(pairs)

====
